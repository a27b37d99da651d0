--------------------------- MODULE ActivityProofs ---------------------------
(* Two parts.  First the two tasks of AppRuntime, for any number of         *)
(* generations and any length of the event queue: the owner is past its     *)
(* last access when the activity is freed, what it queued is gone, and the  *)
(* child pointer, which both tasks use without a lock, is what each takes   *)
(* it for.  Then the activities of ActivityStack, for any number of them:   *)
(* the trees of children, the call stack, and what is freed beneath it.     *)
EXTENDS AppRuntime, ActivityStack, SequenceTheorems, TLAPS

Over == {"epilogue", "gone"}
Left == {"stop", "send", "resend", "join", "gone"}

(* The owner's steps during which no child can appear or be there: only the *)
(* owner enters one.                                                        *)
LuaSteps == {"boot", "init", "first", "scene", "sceneInput", "answers", "onReader",
             "tocAnswer", "onToc", "input", "draw", "launch", "load", "post", "enter"}

Joined == /\ done = (own = "gone")
          /\ ~started => own = "gone"
          /\ ui = "gone" => done

(* Both tasks clear the session on their way out; the later of them leaves  *)
(* it empty.                                                                *)
Cleared == ui \in Left /\ own \in Over => Empty

Bounded == /\ ui \notin Left /\ own \notin Over => gen <= MaxGen
           /\ ui \notin Left \/ own \notin Over => gen <= MaxGen + 1

Children == /\ own \in LuaSteps => sub = NoChild
            /\ ui \in {"child", "pumped", "close", "reset", "exitReset"} => sub # NoChild
            /\ sub # NoChild /\ ui \notin {"close", "reset"} => sub.kind = kind
            /\ own = "enter" => kind = req.kind

RuntimeInv == TypeOK /\ Joined /\ Cleared /\ Bounded /\ Children

-----------------------------------------------------------------------------
(* What the steps of either task leave alone. *)

LEMMA ScriptGen ==
  ASSUME ScriptRuns
  PROVE  gen' = gen \/ (gen < MaxGen /\ gen' = gen + 1)
BY DEF ScriptRuns, BumpGeneration, QueueOpen, QueueToc, session

LEMMA OwnerSteps ==
  ASSUME Owner
  PROVE  /\ UNCHANGED <<ui, started, stop>>
         /\ \/ own = "epilogue" /\ own' = "gone" /\ done' = TRUE /\ UNCHANGED <<session, child>>
            \/ own = "stopping" /\ own' = "epilogue" /\ done' = done /\ ClearForApp
               /\ UNCHANGED child
            \/ /\ own \notin Over /\ own' \notin Over /\ done' = done
               /\ gen' = gen \/ (gen < MaxGen /\ gen' = gen + 1)
<1> USE DEF Over, life, child, session, slots, answers
<1>1. CASE OwnBoot
  BY <1>1 DEF OwnBoot
<1>2. CASE OwnInit
  BY <1>2, ScriptGen DEF OwnInit
<1>3. CASE OwnFirst
  BY <1>3, ScriptGen DEF OwnFirst
<1>4. CASE OwnReceive
  BY <1>4 DEF OwnReceive, Dispatch
<1>5. CASE OwnTick
  BY <1>5 DEF OwnTick, Dispatch
<1>6. CASE OwnInjectStop
  BY <1>6 DEF OwnInjectStop
<1>7. CASE OwnPump
  BY <1>7, ScriptGen DEF OwnPump
<1>8. CASE OwnScene
  BY <1>8, ScriptGen DEF OwnScene
<1>9. CASE OwnTakeProgress
  BY <1>9 DEF OwnTakeProgress, TakeProgress
<1>10. CASE OwnOnReaderClosed
  BY <1>10, ScriptGen DEF OwnOnReaderClosed, LuaCall
<1>11. CASE OwnTakeToc
  BY <1>11 DEF OwnTakeToc, TakeTocResult
<1>12. CASE OwnOnTocClosed
  BY <1>12, ScriptGen DEF OwnOnTocClosed, LuaCall
<1>13. CASE OwnInput
  BY <1>13, ScriptGen DEF OwnInput, LuaCall
<1>14. CASE OwnDraw
  BY <1>14, ScriptGen DEF OwnDraw, LuaCall
<1>15. CASE OwnNoLaunch
  BY <1>15 DEF OwnNoLaunch
<1>16. CASE OwnTake
  BY <1>16 DEF OwnTake, TakeOpen, TakeToc
<1>17. CASE OwnPlaceholder
  BY <1>17 DEF OwnPlaceholder, ToPost, Launched
<1>18. CASE OwnLoadFails
  BY <1>18 DEF OwnLoadFails, ToPost, Launched
<1>19. CASE OwnPost
  BY <1>19 DEF OwnPost, Launched
<1>20. CASE OwnLoaded
  BY <1>20 DEF OwnLoaded
<1>21. CASE OwnEnter
  BY <1>21 DEF OwnEnter
<1>22. CASE OwnEntered
  BY <1>22 DEF OwnEntered, Launched
<1>23. CASE OwnShow
  BY <1>23 DEF OwnShow
<1>24. CASE OwnStop
  BY <1>24 DEF OwnStop
<1>25. CASE OwnDone
  BY <1>25 DEF OwnDone
<1> QED
  BY <1>1, <1>2, <1>3, <1>4, <1>5, <1>6, <1>7, <1>8, <1>9, <1>10, <1>11, <1>12, <1>13, <1>14,
     <1>15, <1>16, <1>17, <1>18, <1>19, <1>20, <1>21, <1>22, <1>23, <1>24, <1>25 DEF Owner

UiTask == UiInput \/ UiPump \/ UiExit \/ UiGoesOn

LEMMA UiTaskSteps ==
  ASSUME UiTask
  PROVE  /\ UNCHANGED <<own, started, done, flags, req, lua>>
         /\ \/ ui = "exitBase" /\ ui' = "stop" /\ ClearForApp
            \/ ui = "stop" /\ ui' \in {"send", "gone"} /\ (ui' = "gone" => ~started)
               /\ UNCHANGED session
            \/ ui \in Left \ {"stop", "gone"} /\ ui' \in Left /\ (ui' = "gone" => done)
               /\ UNCHANGED session
            \/ ui \notin Left /\ ui' \notin Left /\ gen' = gen
<1> USE DEF Left, life, child, session, slots, answers, flags, lua
<1>1. CASE UiInput
  BY <1>1 DEF UiInput
<1>2. CASE UiPump \/ UiExit
  BY <1>2 DEF UiPump, UiExit
<1>3. CASE UiChildFrame \/ UiStay
  BY <1>3 DEF UiChildFrame, UiStay
<1>4. CASE UiPublish
  BY <1>4 DEF UiPublish
<1>5. CASE UiClose \/ UiReset \/ UiPost
  BY <1>5 DEF UiClose, UiReset, UiPost
<1>6. CASE UiExitChild \/ UiExitReset
  BY <1>6 DEF UiExitChild, UiExitReset
<1>7. CASE UiExitBase
  BY <1>7 DEF UiExitBase
<1>8. CASE UiStop
  BY <1>8 DEF UiStop
<1>9. CASE UiSend \/ UiResend \/ UiJoin
  BY <1>9 DEF UiSend, UiResend, UiJoin
<1> QED
  BY <1>1, <1>2, <1>3, <1>4, <1>5, <1>6, <1>7, <1>8, <1>9 DEF UiTask, UiGoesOn

LEMMA TwoTasks ==
  ASSUME [Next]_vars
  PROVE  Owner \/ UiTask \/ UNCHANGED vars
BY DEF Next, UiTask

-----------------------------------------------------------------------------
(* The way out. *)

LEMMA JoinedStep ==
  ASSUME TypeOK, Joined, [Next]_vars
  PROVE  Joined'
<1>1. CASE Owner
  BY <1>1, OwnerSteps DEF Joined, Over
<1>2. CASE UiTask
  BY <1>2, UiTaskSteps DEF Joined, Left
<1>3. CASE UNCHANGED vars
  BY <1>3 DEF Joined, vars, life
<1> QED
  BY <1>1, <1>2, <1>3, TwoTasks

LEMMA ClearedStep ==
  ASSUME TypeOK, Cleared, [Next]_vars
  PROVE  Cleared'
<1> USE DEF Cleared, Empty, session, slots, answers
<1>1. CASE Owner
  <2>1. CASE own = "stopping" /\ own' = "epilogue" /\ ClearForApp
    BY <2>1 DEF ClearForApp
  <2>2. CASE own = "epilogue" /\ own' = "gone" /\ UNCHANGED session /\ ui' = ui
    BY <2>2 DEF Over
  <2>3. CASE own' \notin Over
    BY <2>3
  <2> QED
    BY <1>1, <2>1, <2>2, <2>3, OwnerSteps
<1>2. CASE UiTask
  <2>1. CASE ui = "exitBase" /\ ui' = "stop" /\ ClearForApp
    BY <2>1 DEF ClearForApp
  <2>2. CASE ui \in Left /\ UNCHANGED <<session, own>>
    BY <2>2
  <2>3. CASE ui' \notin Left
    BY <2>3
  <2> QED
    BY <1>2, <2>1, <2>2, <2>3, UiTaskSteps DEF Left
<1>3. CASE UNCHANGED vars
  BY <1>3 DEF vars
<1> QED
  BY <1>1, <1>2, <1>3, TwoTasks

LEMMA BoundedStep ==
  ASSUME TypeOK, Bounded, [Next]_vars
  PROVE  Bounded'
<1>0. gen \in Nat /\ MaxGen \in Nat
  BY MaxGenAssumption DEF TypeOK, SessionOK, Gens
<1> USE <1>0 DEF Bounded
<1>1. CASE Owner
  <2>1. CASE own = "stopping" /\ own' = "epilogue" /\ gen' = gen + 1 /\ ui' = ui
    BY <2>1 DEF Over
  <2>2. CASE own = "epilogue" /\ own' = "gone" /\ gen' = gen /\ ui' = ui
    BY <2>2 DEF Over
  <2>3. CASE /\ own \notin Over /\ own' \notin Over /\ ui' = ui
             /\ gen' = gen \/ (gen < MaxGen /\ gen' = gen + 1)
    BY <2>3
  <2> QED
    BY <1>1, <2>1, <2>2, <2>3, OwnerSteps DEF session, ClearForApp
<1>2. CASE UiTask
  <2>1. CASE ui \notin Left /\ ui' \in Left /\ gen' = gen + 1 /\ own' = own
    BY <2>1
  <2>2. CASE (ui' \in Left <=> ui \in Left) /\ gen' = gen /\ own' = own
    BY <2>2
  <2> QED
    BY <1>2, <2>1, <2>2, UiTaskSteps DEF session, ClearForApp, Left
<1>3. CASE UNCHANGED vars
  BY <1>3 DEF vars, session
<1> QED
  BY <1>1, <1>2, <1>3, TwoTasks
-----------------------------------------------------------------------------
(* The child.  The owner alone enters one, the UI task alone frees it.      *)

LEMMA OwnerChild ==
  ASSUME Owner
  PROVE  /\ own' \in LuaSteps => own \in LuaSteps \/ sub = NoChild
         /\ \/ own = "enter" /\ own' = "entering"
               /\ sub' = [kind |-> req.kind, gen |-> req.gen, state |-> "new", asked |-> FALSE]
            \/ own = "entering" /\ own' \notin LuaSteps
               /\ sub' = IF sub = NoChild \/ sub.state = "closed" THEN sub
                         ELSE [sub EXCEPT !.state = "open", !.asked = FALSE]
            \/ own \notin {"enter", "entering"} /\ sub' = sub
         /\ \/ own = "load" /\ own' = "enter" /\ kind' = req.kind /\ req' = req
            \/ own' # "enter" /\ kind' = kind
<1> USE DEF LuaSteps, child
<1>1. CASE OwnBoot \/ OwnInit \/ OwnFirst \/ OwnInjectStop
  BY <1>1 DEF OwnBoot, OwnInit, OwnFirst, OwnInjectStop
<1>2. CASE OwnReceive
  BY <1>2 DEF OwnReceive, Dispatch
<1>3. CASE OwnTick
  BY <1>3 DEF OwnTick, Dispatch
<1>4. CASE OwnPump \/ OwnScene
  BY <1>4 DEF OwnPump, OwnScene
<1>5. CASE OwnTakeProgress \/ OwnTakeToc
  BY <1>5 DEF OwnTakeProgress, OwnTakeToc
<1>6. CASE OwnOnReaderClosed
  BY <1>6 DEF OwnOnReaderClosed, LuaCall
<1>7. CASE OwnOnTocClosed
  BY <1>7 DEF OwnOnTocClosed, LuaCall
<1>8. CASE OwnInput \/ OwnDraw
  BY <1>8 DEF OwnInput, OwnDraw, LuaCall
<1>9. CASE OwnNoLaunch \/ OwnTake
  BY <1>9 DEF OwnNoLaunch, OwnTake
<1>10. CASE OwnPlaceholder \/ OwnLoadFails
  BY <1>10 DEF OwnPlaceholder, OwnLoadFails, ToPost, Launched
<1>11. CASE OwnPost \/ OwnLoaded
  BY <1>11 DEF OwnPost, OwnLoaded, Launched
<1>12. CASE OwnEnter
  BY <1>12 DEF OwnEnter
<1>13. CASE OwnEntered
  BY <1>13 DEF OwnEntered, Launched
<1>14. CASE OwnShow \/ OwnStop \/ OwnDone
  BY <1>14 DEF OwnShow, OwnStop, OwnDone
<1> QED
  BY <1>1, <1>2, <1>3, <1>4, <1>5, <1>6, <1>7, <1>8, <1>9, <1>10, <1>11, <1>12, <1>13, <1>14
     DEF Owner

(* A change of a child's state makes neither another child nor none.        *)
LEMMA SameChild ==
  ASSUME NEW c \in Child, NEW s \in {"new", "open", "closed"}, NEW a \in BOOLEAN
  PROVE  /\ c # NoChild
         /\ [c EXCEPT !.state = s] \in Child /\ [c EXCEPT !.state = s].kind = c.kind
         /\ [c EXCEPT !.asked = a] \in Child /\ [c EXCEPT !.asked = a].kind = c.kind
         /\ [c EXCEPT !.state = s, !.asked = a] \in Child
         /\ [c EXCEPT !.state = s, !.asked = a].kind = c.kind
BY NoChildAssumption DEF Child

LEMMA NewChild ==
  ASSUME req \in [kind : Kinds, gen : Gens, whole : BOOLEAN]
  PROVE  LET c == [kind |-> req.kind, gen |-> req.gen, state |-> "new", asked |-> FALSE]
         IN  c \in Child /\ c # NoChild /\ c.kind = req.kind
<1>1. req.kind \in Kinds /\ req.gen \in Gens
  OBVIOUS
<1>2. [kind |-> req.kind, gen |-> req.gen, state |-> "new", asked |-> FALSE] \in Child
  BY <1>1 DEF Child
<1> QED
  BY <1>2, NoChildAssumption

(* The steps of the UI task at which it has a child in its hands. *)
Holding == {"child", "pumped", "close", "reset", "exitReset"}

LEMMA UiChild ==
  ASSUME UiTask, sub \in Child \cup {NoChild}, ui \in Holding => sub # NoChild
  PROVE  /\ sub' \in Child \cup {NoChild}
         /\ sub' = NoChild \/ (sub # NoChild /\ sub'.kind = sub.kind)
         /\ ui' \in Holding => sub' # NoChild
         /\ kind' = kind \/ (ui' = "close" /\ sub # NoChild)
         /\ ui \in {"close", "reset"} => ui' \in {"close", "reset"} \/ sub' = NoChild
<1> USE DEF child, Holding
<1>1. CASE UiInput \/ UiPump \/ UiExit
  BY <1>1 DEF UiInput, UiPump, UiExit
<1>2. CASE UiChildFrame
  BY <1>2, SameChild DEF UiChildFrame
<1>3. CASE UiStay \/ UiPublish
  BY <1>3 DEF UiStay, UiPublish
<1>4. CASE UiReset \/ UiPost
  BY <1>4 DEF UiReset, UiPost
<1>5. CASE UiClose
  BY <1>5, SameChild DEF UiClose
<1>6. CASE UiExitChild
  BY <1>6, SameChild DEF UiExitChild
<1>7. CASE UiExitReset
  BY <1>7 DEF UiExitReset
<1>8. CASE UiExitBase
  BY <1>8, SameChild DEF UiExitBase
<1>9. CASE UiStop \/ UiSend \/ UiResend \/ UiJoin
  BY <1>9 DEF UiStop, UiSend, UiResend, UiJoin
<1> QED
  BY <1>1, <1>2, <1>3, <1>4, <1>5, <1>6, <1>7, <1>8, <1>9 DEF UiTask, UiGoesOn

LEMMA ChildrenStep ==
  ASSUME TypeOK, Children, [Next]_vars
  PROVE  Children' /\ sub' \in Child \cup {NoChild}
<1>0. sub \in Child \cup {NoChild} /\ req \in [kind : Kinds, gen : Gens, whole : BOOLEAN]
  BY DEF TypeOK
<1>1. CASE Owner
  <2>1. UNCHANGED ui
    BY <1>1, OwnerSteps
  <2>2. /\ sub' \in Child \cup {NoChild}
        /\ \/ own = "enter"
           \/ sub' = sub
           \/ sub # NoChild /\ sub' # NoChild /\ sub'.kind = sub.kind
    <3>1. CASE own = "enter"
      BY <1>1, <3>1, <1>0, OwnerChild, NewChild
    <3>2. CASE own = "entering"
      <4>1. CASE sub = NoChild \/ sub.state = "closed"
        BY <1>1, <3>2, <4>1, <1>0, OwnerChild
      <4>2. CASE sub # NoChild /\ sub.state # "closed"
        <5>1. sub \in Child /\ sub' = [sub EXCEPT !.state = "open", !.asked = FALSE]
          BY <1>1, <3>2, <4>2, <1>0, OwnerChild
        <5> QED
          BY <5>1, SameChild
      <4> QED
        BY <4>1, <4>2
    <3>3. CASE own \notin {"enter", "entering"}
      BY <1>1, <3>3, <1>0, OwnerChild
    <3> QED
      BY <3>1, <3>2, <3>3
  <2>3. own = "enter" => sub = NoChild /\ sub' # NoChild /\ sub'.kind = kind /\ kind' = kind
                         /\ own' \notin LuaSteps
    BY <1>0, <1>1, OwnerChild, NewChild DEF Children, LuaSteps
  <2>4. own = "load" /\ own' = "enter" => sub = NoChild /\ sub' = sub
    BY <1>1, OwnerChild DEF Children, LuaSteps
  <2>5. own' \in LuaSteps => sub' = NoChild
    BY <1>1, <2>3, OwnerChild DEF Children
  <2> QED
    BY <1>1, <2>1, <2>2, <2>3, <2>4, <2>5, OwnerChild DEF Children
<1>2. CASE UiTask
  <2>1. own' = own /\ req' = req
    BY <1>2, UiTaskSteps
  <2>3. /\ sub' \in Child \cup {NoChild}
        /\ sub' = NoChild \/ (sub # NoChild /\ sub'.kind = sub.kind)
        /\ ui' \in Holding => sub' # NoChild
        /\ kind' = kind \/ (ui' = "close" /\ sub # NoChild)
        /\ ui \in {"close", "reset"} => ui' \in {"close", "reset"} \/ sub' = NoChild
    BY <1>0, <1>2, UiChild DEF Children, Holding
  <2>7. own = "enter" => sub = NoChild
    BY DEF Children, LuaSteps
  <2>8. sub = NoChild => sub' = NoChild
    BY <2>3
  <2> QED
    BY <2>1, <2>3, <2>7, <2>8 DEF Children, Holding
<1>3. CASE UNCHANGED vars
  BY <1>0, <1>3 DEF vars, child, Children
<1> QED
  BY <1>1, <1>2, <1>3, TwoTasks

-----------------------------------------------------------------------------
(* Types. *)

SlotsOK == SessionOK /\ job \in Gens

LEMMA ScriptTypes ==
  ASSUME SlotsOK, scene \in BOOLEAN, ScriptRuns
  PROVE  SlotsOK' /\ scene' \in BOOLEAN
<1>0. MaxGen \in Nat /\ gen \in Nat /\ 0 \in Gens
  BY MaxGenAssumption DEF SlotsOK, SessionOK, Gens
<1>1. gen < MaxGen => gen + 1 \in Gens
  BY <1>0 DEF Gens
<1> USE <1>0, <1>1 DEF SlotsOK, SessionOK, slots, answers, session, lua
<1>2. CASE UNCHANGED <<session, lua>>
  BY <1>2
<1>3. CASE BumpGeneration /\ (QueueOpen(gen + 1, TRUE) \/ QueueToc(gen + 1)) /\ UNCHANGED lua
  BY <1>3 DEF BumpGeneration, QueueOpen, QueueToc
<1>4. CASE BumpGeneration /\ job' = gen + 1 /\ UNCHANGED <<slots, launching, answers, scene>>
  BY <1>4 DEF BumpGeneration
<1>5. CASE job # 0 /\ UNCHANGED <<gen, scene>>
           /\ \E complete \in BOOLEAN : QueueOpen(job, complete)
              /\ job' = IF complete THEN 0 ELSE job
  BY <1>5 DEF QueueOpen
<1>6. CASE scene' = ~scene /\ UNCHANGED <<session, job>>
  BY <1>6
<1> QED
  BY <1>2, <1>3, <1>4, <1>5, <1>6 DEF ScriptRuns

LEMMA ClearTypes ==
  ASSUME SlotsOK, gen <= MaxGen + 1, ClearForApp, job' = job
  PROVE  SlotsOK'
<1>1. MaxGen \in Nat /\ gen \in Nat
  BY MaxGenAssumption DEF SlotsOK, SessionOK, Gens
<1>2. gen + 1 \in Gens /\ 0 \in Gens
  BY <1>1 DEF Gens
<1> QED
  BY <1>2 DEF ClearForApp, SlotsOK, SessionOK

LEMMA OwnerSlots ==
  ASSUME TypeOK, Bounded, Owner
  PROVE  SlotsOK' /\ scene' \in BOOLEAN
<1>0. SlotsOK /\ scene \in BOOLEAN /\ req.gen \in Gens /\ 0 \in Gens
  BY MaxGenAssumption DEF TypeOK, SlotsOK, Gens
<1> USE <1>0 DEF session, slots, answers, lua
<1>1. CASE ScriptRuns
  BY <1>1, ScriptTypes
<1>2. CASE UNCHANGED <<session, lua>>
  BY <1>2 DEF SlotsOK, SessionOK
<1>3. CASE OwnTakeProgress \/ OwnTakeToc
  BY <1>3 DEF OwnTakeProgress, OwnTakeToc, TakeProgress, TakeTocResult, SlotsOK, SessionOK
<1>4. CASE OwnTake
  BY <1>4 DEF OwnTake, TakeOpen, TakeToc, SlotsOK, SessionOK
<1>5. CASE OwnPlaceholder \/ OwnEntered
  BY <1>5 DEF OwnPlaceholder, OwnEntered, SlotsOK, SessionOK
<1>6. CASE OwnLoadFails
  BY <1>6 DEF OwnLoadFails, SlotsOK, SessionOK
<1>7. CASE OwnStop
  BY <1>7, ClearTypes DEF OwnStop, Bounded, Over
<1>8. CASE OwnOnReaderClosed \/ OwnOnTocClosed \/ OwnInput \/ OwnDraw
  BY <1>8, <1>1 DEF OwnOnReaderClosed, OwnOnTocClosed, OwnInput, OwnDraw, LuaCall
<1>9. CASE OwnInit \/ OwnFirst \/ OwnPump \/ OwnScene
  BY <1>9, <1>1 DEF OwnInit, OwnFirst, OwnPump, OwnScene
<1>10. CASE OwnBoot \/ OwnReceive \/ OwnTick \/ OwnInjectStop \/ OwnNoLaunch \/ OwnPost
            \/ OwnLoaded \/ OwnEnter \/ OwnShow \/ OwnDone
  BY <1>10, <1>2 DEF OwnBoot, OwnReceive, OwnTick, OwnInjectStop, OwnNoLaunch, OwnPost, OwnLoaded,
     OwnEnter, OwnShow, OwnDone
<1> QED
  BY <1>3, <1>4, <1>5, <1>6, <1>7, <1>8, <1>9, <1>10 DEF Owner

LEMMA UiSlots ==
  ASSUME TypeOK, Bounded, Children, UiTask
  PROVE  SlotsOK' /\ scene' \in BOOLEAN
<1>0. SlotsOK /\ scene \in BOOLEAN /\ UNCHANGED lua
  BY UiTaskSteps DEF TypeOK, SlotsOK
<1> USE <1>0 DEF session, slots, answers, lua
<1>1. CASE UiExitBase
  BY <1>1, ClearTypes DEF UiExitBase, Bounded, Left
<1>2. CASE UiPublish
  <2>1. sub.gen \in Gens
    BY <1>2 DEF UiPublish, Children, TypeOK, Child
  <2> QED
    BY <1>2, <2>1 DEF UiPublish, SlotsOK, SessionOK
<1>3. CASE UNCHANGED session
  BY <1>3 DEF SlotsOK, SessionOK
<1> QED
  BY <1>1, <1>2, <1>3 DEF UiTask, UiGoesOn, UiInput, UiPump, UiExit, UiChildFrame, UiStay,
     UiClose, UiReset, UiPost, UiExitChild, UiExitReset, UiStop, UiSend, UiResend, UiJoin

Events == {"Draw", "Input", "Stop"}
QueueOK == events \in Seq(Events) /\ Len(events) <= QueueLen

LEMMA SendTypes ==
  ASSUME QueueOK, NEW e \in Events
  PROVE  /\ Send(e) => QueueOK'
         /\ events # <<>> => Tail(events) \in Seq(Events) /\ Len(Tail(events)) <= QueueLen
         /\ Len(events) < QueueLen => Append(events, e) \in Seq(Events)
                                       /\ Len(Append(events, e)) <= QueueLen
<1>1. QueueLen \in Nat \ {0}
  BY QueueAssumption
<1> QED
  BY <1>1 DEF Send, QueueOK

LEMMA QueueStep ==
  ASSUME TypeOK, [Next]_vars
  PROVE  QueueOK'
<1>0. QueueOK
  BY DEF TypeOK, QueueOK, Events
<1>1. CASE UNCHANGED events
  BY <1>0, <1>1 DEF QueueOK
<1>2. CASE OwnReceive
  BY <1>0, <1>2, SendTypes DEF OwnReceive, QueueOK, Events
<1>3. CASE OwnPost
  BY <1>0, <1>3, SendTypes DEF OwnPost, Events
<1>4. CASE UiInput \/ UiPost
  BY <1>0, <1>1, <1>4, SendTypes DEF UiInput, UiPost, PostEvent, Events
<1>5. CASE UiSend \/ UiResend
  BY <1>0, <1>1, <1>5, SendTypes, QueueAssumption DEF UiSend, UiResend, QueueOK, Events
<1>6. CASE UNCHANGED vars
  BY <1>1, <1>6 DEF vars
<1>7. CASE Owner
  BY <1>1, <1>2, <1>3, <1>7
     DEF Owner, OwnBoot, OwnInit, OwnFirst, OwnTick, OwnInjectStop, OwnPump, OwnScene,
         OwnTakeProgress, OwnOnReaderClosed, OwnTakeToc, OwnOnTocClosed, OwnInput, OwnDraw,
         LuaCall, OwnNoLaunch, OwnTake, OwnPlaceholder, OwnLoadFails, OwnLoaded, OwnEnter,
         OwnEntered, OwnShow, OwnStop, OwnDone
<1>8. CASE UiTask
  BY <1>1, <1>4, <1>5, <1>8
     DEF UiTask, UiGoesOn, UiPump, UiExit, UiChildFrame, UiStay, UiPublish, UiClose, UiReset,
         UiExitChild, UiExitReset, UiExitBase, UiStop, UiJoin
<1> QED
  BY <1>6, <1>7, <1>8, TwoTasks

(* The rest of what the tasks write. *)
RestOK == /\ ui \in UiSteps /\ own \in OwnSteps
          /\ {started, stop, done, cancelled, ready, failed, closePending} \subseteq BOOLEAN
          /\ kind \in Kinds \cup {"None"}
          /\ req \in [kind : Kinds, gen : Gens, whole : BOOLEAN]
          /\ panel \in {"lua", "native"}

LEMMA RequestTypes ==
  ASSUME SlotsOK, RestOK, OwnTake
  PROVE  req' \in [kind : Kinds, gen : Gens, whole : BOOLEAN]
<1>1. open \in Gens /\ toc \in Gens /\ whole \in BOOLEAN
  BY DEF SlotsOK, SessionOK
<1>2. \/ req' = [kind |-> "Reader", gen |-> open, whole |-> whole]
      \/ req' = [kind |-> "Toc", gen |-> toc, whole |-> TRUE]
  BY DEF OwnTake
<1>3. CASE req' = [kind |-> "Reader", gen |-> open, whole |-> whole]
  BY <1>1, <1>3, Zenon DEF Kinds
<1>4. CASE req' = [kind |-> "Toc", gen |-> toc, whole |-> TRUE]
  BY <1>1, <1>4, Zenon DEF Kinds
<1> QED
  BY <1>2, <1>3, <1>4

LEMMA OwnerRest ==
  ASSUME SlotsOK, RestOK, Owner
  PROVE  RestOK'
<1> USE DEF RestOK, life, flags, child
<1>0. UNCHANGED <<ui, started, stop>>
  BY OwnerSteps
<1>1. CASE OwnBoot
  BY <1>1 DEF OwnBoot, OwnSteps
<1>2. CASE OwnInit
  BY <1>2 DEF OwnInit, OwnSteps
<1>3. CASE OwnFirst
  BY <1>3 DEF OwnFirst, OwnSteps
<1>4. CASE OwnReceive
  BY <1>4 DEF OwnReceive, Dispatch, OwnSteps
<1>5. CASE OwnTick
  BY <1>5 DEF OwnTick, Dispatch, OwnSteps
<1>6. CASE OwnInjectStop
  BY <1>6 DEF OwnInjectStop, OwnSteps
<1>7. CASE OwnPump
  BY <1>7 DEF OwnPump, OwnSteps
<1>8. CASE OwnScene
  BY <1>8 DEF OwnScene, OwnSteps
<1>9. CASE OwnTakeProgress \/ OwnTakeToc
  BY <1>9 DEF OwnTakeProgress, OwnTakeToc, OwnSteps
<1>10. CASE OwnOnReaderClosed
  BY <1>10 DEF OwnOnReaderClosed, LuaCall, OwnSteps
<1>11. CASE OwnOnTocClosed
  BY <1>11 DEF OwnOnTocClosed, LuaCall, OwnSteps
<1>12. CASE OwnInput
  BY <1>12 DEF OwnInput, LuaCall, OwnSteps
<1>13. CASE OwnDraw
  BY <1>13 DEF OwnDraw, LuaCall, OwnSteps
<1>14. CASE OwnNoLaunch
  BY <1>14 DEF OwnNoLaunch, OwnSteps
<1>15. CASE OwnTake
  BY <1>0, <1>15, RequestTypes DEF OwnTake, OwnSteps
<1>16. CASE OwnPlaceholder
  BY <1>16 DEF OwnPlaceholder, ToPost, Launched, OwnSteps
<1>17. CASE OwnLoadFails
  BY <1>17 DEF OwnLoadFails, ToPost, Launched, OwnSteps
<1>18. CASE OwnPost
  BY <1>18 DEF OwnPost, Launched, OwnSteps
<1>19. CASE OwnLoaded
  BY <1>19 DEF OwnLoaded, OwnSteps
<1>20. CASE OwnEnter
  BY <1>20 DEF OwnEnter, OwnSteps
<1>21. CASE OwnEntered
  BY <1>21 DEF OwnEntered, Launched, OwnSteps
<1>22. CASE OwnShow
  BY <1>22 DEF OwnShow, OwnSteps
<1>23. CASE OwnStop
  BY <1>23 DEF OwnStop, OwnSteps
<1>24. CASE OwnDone
  BY <1>24 DEF OwnDone, OwnSteps
<1> QED
  BY <1>1, <1>2, <1>3, <1>4, <1>5, <1>6, <1>7, <1>8, <1>9, <1>10, <1>11, <1>12, <1>13, <1>14,
     <1>15, <1>16, <1>17, <1>18, <1>19, <1>20, <1>21, <1>22, <1>23, <1>24 DEF Owner

LEMMA UiRest ==
  ASSUME RestOK, UiTask
  PROVE  RestOK'
<1> USE DEF RestOK, life, flags, child
<1>1. CASE UiInput \/ UiPump \/ UiExit
  BY <1>1 DEF UiInput, UiPump, UiExit, UiSteps
<1>2. CASE UiChildFrame \/ UiStay
  BY <1>2 DEF UiChildFrame, UiStay, UiSteps
<1>3. CASE UiPublish
  BY <1>3 DEF UiPublish, UiSteps
<1>4. CASE UiClose \/ UiReset \/ UiPost
  BY <1>4 DEF UiClose, UiReset, UiPost, UiSteps
<1>5. CASE UiExitChild \/ UiExitReset \/ UiExitBase
  BY <1>5 DEF UiExitChild, UiExitReset, UiExitBase, UiSteps
<1>6. CASE UiStop
  BY <1>6 DEF UiStop, UiSteps
<1>7. CASE UiSend \/ UiResend \/ UiJoin
  BY <1>7 DEF UiSend, UiResend, UiJoin, UiSteps
<1> QED
  BY <1>1, <1>2, <1>3, <1>4, <1>5, <1>6, <1>7 DEF UiTask, UiGoesOn

LEMMA TypeParts ==
  TypeOK <=> SlotsOK /\ scene \in BOOLEAN /\ QueueOK /\ RestOK /\ sub \in Child \cup {NoChild}
BY DEF TypeOK, SlotsOK, QueueOK, RestOK, Events

LEMMA TypeStep ==
  ASSUME TypeOK, Bounded, Children, [Next]_vars
  PROVE  TypeOK'
<1>1. SlotsOK /\ RestOK /\ scene \in BOOLEAN
  BY TypeParts
<1>2. QueueOK' /\ sub' \in Child \cup {NoChild}
  BY QueueStep, ChildrenStep
<1>3. SlotsOK' /\ scene' \in BOOLEAN /\ RestOK'
  <2>1. CASE Owner
    BY <1>1, <2>1, OwnerSlots, OwnerRest
  <2>2. CASE UiTask
    BY <1>1, <2>2, UiSlots, UiRest
  <2>3. CASE UNCHANGED vars
    BY <1>1, <2>3 DEF vars, session, slots, answers, life, flags, child, lua, SlotsOK, SessionOK,
       RestOK
  <2> QED
    BY <2>1, <2>2, <2>3, TwoTasks
<1> QED
  BY <1>2, <1>3 DEF TypeOK, SlotsOK, QueueOK, RestOK, Events

-----------------------------------------------------------------------------
(* The invariant. *)

LEMMA RuntimeInit == Init => RuntimeInv
<1> SUFFICES ASSUME Init
             PROVE  RuntimeInv
  OBVIOUS
<1>0. MaxGen \in Nat \ {0} /\ QueueLen \in Nat \ {0} /\ 0 \in Gens /\ 1 \in Gens
  BY MaxGenAssumption, QueueAssumption DEF Gens
<1>1. SlotsOK /\ scene \in BOOLEAN
  BY <1>0 DEF Init, SessionInit, SlotsOK, SessionOK
<1>2. QueueOK
  BY <1>0 DEF Init, QueueOK
<1>3. RestOK
  BY <1>0 DEF Init, RestOK, UiSteps, OwnSteps, Kinds
<1>4. Joined /\ Children
  BY DEF Init, Joined, Children
<1>5. Cleared /\ Bounded
  BY <1>0 DEF Init, SessionInit, Cleared, Bounded, Left
<1> QED
  BY <1>1, <1>2, <1>3, <1>4, <1>5, TypeParts DEF RuntimeInv, Init

LEMMA RuntimeStep == RuntimeInv /\ [Next]_vars => RuntimeInv'
BY JoinedStep, ClearedStep, BoundedStep, ChildrenStep, TypeStep DEF RuntimeInv

LEMMA RuntimeHolds == Spec => []RuntimeInv
BY RuntimeInit, RuntimeStep, PTL DEF Spec

(* The steps of the two tasks, the slots, the queue and the child keep      *)
(* their types: the queue never holds more than kEventQueueLen events, and  *)
(* no generation is taken beyond the two of the way out.                    *)
THEOREM RuntimeTyping == Spec => []TypeOK
<1>1. RuntimeInv => TypeOK
  BY DEF RuntimeInv
<1> QED
  BY <1>1, RuntimeHolds, PTL

(* However the two tasks are scheduled, onExit returns, and the activity    *)
(* and its queue are freed, only when the owner task is past its last use   *)
(* of them, and whatever its last callbacks queued is gone by then.         *)
THEOREM SessionIsClean == Spec => []SessionClean
<1>1. RuntimeInv => SessionClean
  BY DEF RuntimeInv, Joined, Cleared, SessionClean, Left, Over
<1> QED
  BY <1>1, RuntimeHolds, PTL

(* on_reader_closed and on_toc_closed run only with no native child there,  *)
(* though the UI task publishes the answer while the child still is.        *)
THEOREM ToldSafe == Spec => []ToldAfterClose
<1>1. RuntimeInv => ToldAfterClose
  BY DEF RuntimeInv, Children, LuaSteps, ToldAfterClose
<1> QED
  BY <1>1, RuntimeHolds, PTL

(* The close carried out by the UI task finds the child it was asked by,    *)
(* and the kind it casts it by, which the owner wrote, is that child's.     *)
THEOREM KindSafe == Spec => []KindMatches
<1>1. RuntimeInv => KindMatches
  BY DEF RuntimeInv, Children, KindMatches
<1> QED
  BY <1>1, RuntimeHolds, PTL

LEMMA OwnerPaints ==
  ASSUME Owner, Children, panel = "native", panel' = "lua"
  PROVE  sub = NoChild \/ scene
<1>1. CASE own \in LuaSteps
  BY <1>1 DEF Children
<1>2. CASE OwnShow
  BY <1>2 DEF OwnShow
<1>3. CASE own \notin LuaSteps /\ ~OwnShow
  <2>1. UNCHANGED panel \/ OwnEntered
    BY <1>3 DEF Owner, LuaSteps, OwnBoot, OwnInit, OwnFirst, OwnReceive, OwnTick, OwnInjectStop,
       OwnPump, OwnScene, OwnTakeProgress, OwnOnReaderClosed, OwnTakeToc, OwnOnTocClosed,
       OwnInput, OwnDraw, LuaCall, OwnNoLaunch, OwnTake, OwnPlaceholder, OwnLoadFails, OwnPost,
       OwnLoaded, OwnEnter, OwnStop, OwnDone
  <2> QED
    BY <2>1 DEF OwnEntered
<1> QED
  BY <1>1, <1>2, <1>3

LEMMA UiNeverPaints ==
  ASSUME UiTask
  PROVE  UNCHANGED panel
BY DEF UiTask, UiGoesOn, UiInput, UiPump, UiExit, UiChildFrame, UiStay, UiPublish, UiClose,
   UiReset, UiPost, UiExitChild, UiExitReset, UiExitBase, UiStop, UiSend, UiResend, UiJoin

(* No step of the owner paints the Lua side over a native child, whichever  *)
(* step the UI task has reached, but for a list scene of the host.          *)
THEOREM DisplaySafe == Spec => DisplayKept
<1>1. RuntimeInv
      /\ [Next]_vars => [panel = "native" /\ panel' = "lua" => sub = NoChild \/ scene]_vars
  <2> SUFFICES ASSUME RuntimeInv, [Next]_vars, panel = "native", panel' = "lua"
               PROVE  sub = NoChild \/ scene
    OBVIOUS
  <2>1. CASE Owner
    BY <2>1, OwnerPaints DEF RuntimeInv
  <2>2. CASE UiTask
    BY <2>2, UiNeverPaints
  <2>3. CASE UNCHANGED vars
    BY <2>3 DEF vars
  <2> QED
    BY <2>1, <2>2, <2>3, TwoTasks
<1> QED
  BY <1>1, RuntimeHolds, PTL DEF Spec, DisplayKept

-----------------------------------------------------------------------------
(* The activities and their children (ActivityStack). *)

Object == Activities \cup {None}
Forest == [Activities -> Object]

-----------------------------------------------------------------------------
(* Chains of links. *)

(* A link of 0 is none: None is no activity. *)
LEMMA NoneIsNone == None \notin Activities
BY MaxActivityAssumption DEF None, Activities

LEMMA ChainWithin ==
  ASSUME NEW f, NEW o
  PROVE  ChainOf(f, o) \subseteq Activities
BY DEF ChainOf

(* A chain is the least closed set with its root. *)
LEMMA ChainLeast ==
  ASSUME NEW f, NEW o, NEW X \in SUBSET Activities, Closed(f, X), o # None => o \in X
  PROVE  ChainOf(f, o) \subseteq X
BY DEF ChainOf

LEMMA ChainNone ==
  ASSUME NEW f
  PROVE  ChainOf(f, None) = {}
<1>1. Closed(f, {})
  BY DEF Closed
<1> QED BY <1>1, ChainLeast

LEMMA ChainRoot ==
  ASSUME NEW f, NEW o \in Activities
  PROVE  o \in ChainOf(f, o)
BY NoneIsNone DEF ChainOf

LEMMA ChainClosed ==
  ASSUME NEW f \in Forest, NEW o
  PROVE  Closed(f, ChainOf(f, o))
<1> SUFFICES ASSUME NEW x \in ChainOf(f, o), f[x] # None
             PROVE  f[x] \in ChainOf(f, o)
  BY DEF Closed
<1>1. x \in Activities /\ f[x] \in Activities
  BY ChainWithin DEF Forest, Object
<1>2. ASSUME NEW X \in SUBSET Activities, Closed(f, X), o # None => o \in X
      PROVE  f[x] \in X
  BY <1>2, ChainLeast DEF Closed
<1> QED BY <1>1, <1>2 DEF ChainOf

LEMMA ChainBelow ==
  ASSUME NEW f \in Forest, NEW o, NEW x \in ChainOf(f, o)
  PROVE  ChainOf(f, x) \subseteq ChainOf(f, o)
BY ChainClosed, ChainWithin, ChainLeast

(* The root, and the chain of its child. *)
LEMMA ChainUnfold ==
  ASSUME NEW f \in Forest, NEW o \in Activities
  PROVE  ChainOf(f, o) = {o} \cup ChainOf(f, f[o])
<1> DEFINE X == {o} \cup ChainOf(f, f[o])
<1>1. f[o] \in Object
  BY DEF Forest
<1>2. X \in SUBSET Activities
  BY ChainWithin
<1>3. Closed(f, X)
  BY <1>1, ChainClosed, ChainRoot DEF Closed, Object
<1>4. ChainOf(f, o) \subseteq X
  BY <1>2, <1>3, ChainLeast
<1>5. o \in ChainOf(f, o)
  BY ChainRoot
<1>6. ChainOf(f, f[o]) \subseteq ChainOf(f, o)
  <2>1. CASE f[o] = None
    BY <2>1, ChainNone
  <2>2. CASE f[o] # None
    <3>1. f[o] \in ChainOf(f, o)
      BY <2>2, <1>5, ChainClosed DEF Closed
    <3> QED BY <3>1, ChainBelow
  <2> QED BY <2>1, <2>2
<1> QED BY <1>4, <1>5, <1>6

(* What is not the root is the child of another of the chain. *)
LEMMA ChainParent ==
  ASSUME NEW f \in Forest, NEW o \in Object, NEW x \in ChainOf(f, o), x # o
  PROVE  \E w \in ChainOf(f, o) : f[w] = x
<1> DEFINE X == ChainOf(f, o) \ {x}
<1> SUFFICES ASSUME \A w \in ChainOf(f, o) : f[w] # x
             PROVE  FALSE
  OBVIOUS
<1>1. X \in SUBSET Activities
  BY ChainWithin
<1>2. Closed(f, X)
  BY ChainClosed DEF Closed
<1>3. o # None => o \in X
  BY ChainRoot DEF Object
<1>4. ChainOf(f, o) \subseteq X
  BY <1>1, <1>2, <1>3, ChainLeast
<1> QED BY <1>4

(* No activity is the child of two. *)
Single(f) == \A o, p \in Activities : f[o] = f[p] /\ f[o] # None => o = p

(* No activity has it as child. *)
Root(f, c) == c \in Object /\ \A o \in Activities : f[o] = c => c = None

LEMMA ChainsApart ==
  ASSUME NEW f \in Forest, Single(f), NEW c, NEW d, Root(f, c), Root(f, d), c # d
  PROVE  ChainOf(f, c) \cap ChainOf(f, d) = {}
<1> DEFINE X == ChainOf(f, c) \ ChainOf(f, d)
<1>1. X \in SUBSET Activities
  BY ChainWithin
<1>2. Closed(f, X)
  <2> SUFFICES ASSUME NEW x \in X, f[x] # None, f[x] \in ChainOf(f, d)
               PROVE  FALSE
    BY ChainClosed DEF Closed
  <2>1. x \in Activities /\ f[x] # d
    BY <1>1 DEF Root
  <2>2. PICK w \in ChainOf(f, d) : f[w] = f[x]
    BY <2>1, ChainParent DEF Root
  <2>3. w = x
    BY <2>1, <2>2, ChainWithin DEF Single
  <2> QED BY <2>2, <2>3
<1>3. c # None => c \in X
  <2> SUFFICES ASSUME c # None, c \in ChainOf(f, d)
               PROVE  FALSE
    BY ChainRoot DEF Root, Object
  <2>1. PICK w \in ChainOf(f, d) : f[w] = c
    BY ChainParent DEF Root
  <2> QED BY <2>1, ChainWithin DEF Root
<1>4. ChainOf(f, c) \subseteq X
  BY <1>1, <1>2, <1>3, ChainLeast
<1> QED BY <1>4

(* Below a root nothing is its own descendant. *)
LEMMA NoLoop ==
  ASSUME NEW f \in Forest, Single(f), NEW c, Root(f, c), NEW z \in ChainOf(f, c)
  PROVE  z \notin ChainOf(f, f[z])
<1> DEFINE X == {x \in ChainOf(f, c) : x \notin ChainOf(f, f[x])}
<1>1. X \in SUBSET Activities
  BY ChainWithin
<1>2. Closed(f, X)
  <2> SUFFICES ASSUME NEW x \in X, f[x] # None, f[x] \in ChainOf(f, f[f[x]])
               PROVE  FALSE
    BY ChainClosed DEF Closed
  <2>1. x \in Activities /\ f[x] \in Activities /\ f[f[x]] \in Object
    BY <1>1 DEF Forest, Object
  <2>2. x \notin ChainOf(f, f[x])
    OBVIOUS
  <2>3. CASE f[x] = f[f[x]]
    <3>1. x = f[x]
      BY <2>1, <2>3 DEF Single
    <3> QED BY <3>1, <2>1, <2>2, ChainRoot
  <2>4. CASE f[x] # f[f[x]]
    <3>1. PICK w \in ChainOf(f, f[f[x]]) : f[w] = f[x]
      BY <2>1, <2>4, ChainParent
    <3>2. w = x
      BY <2>1, <3>1, ChainWithin DEF Single
    <3>3. ChainOf(f, f[f[x]]) \subseteq ChainOf(f, f[x])
      BY <2>1, ChainUnfold
    <3> QED BY <2>2, <3>1, <3>2, <3>3
  <2> QED BY <2>3, <2>4
<1>3. c # None => c \in X
  <2> SUFFICES ASSUME c # None, c \in ChainOf(f, f[c])
               PROVE  FALSE
    BY ChainRoot DEF Root, Object
  <2>1. c \in Activities /\ f[c] \in Object /\ f[c] # c
    BY DEF Root, Forest, Object
  <2>2. PICK w \in ChainOf(f, f[c]) : f[w] = c
    BY <2>1, ChainParent
  <2> QED BY <2>2, ChainWithin DEF Root
<1>4. ChainOf(f, c) \subseteq X
  BY <1>1, <1>2, <1>3, ChainLeast
<1> QED BY <1>4

(* A chain ends in one activity. *)
LEMMA OneLeaf ==
  ASSUME NEW f \in Forest, NEW c \in Object,
         NEW x \in ChainOf(f, c), NEW y \in ChainOf(f, c), f[x] = None, f[y] = None
  PROVE  x = y
<1> DEFINE X == {z \in ChainOf(f, c) : x \in ChainOf(f, z)}
<1>1. X \in SUBSET Activities
  BY ChainWithin
<1>2. Closed(f, X)
  BY <1>1, ChainClosed, ChainUnfold DEF Closed
<1>3. c # None => c \in X
  BY ChainRoot DEF Object
<1>4. ChainOf(f, c) \subseteq X
  BY <1>1, <1>2, <1>3, ChainLeast
<1>5. ChainOf(f, y) = {y}
  BY ChainUnfold, ChainNone, ChainWithin
<1> QED BY <1>4, <1>5

(* Members of G, which what they point to belongs to, freed: the other      *)
(* activities keep what is left of their chains.                            *)
LEMMA WithoutForest ==
  ASSUME NEW f \in Forest, NEW G
  PROVE  /\ Without(f, G) \in Forest
         /\ \A o \in Activities : Without(f, G)[o] = IF f[o] \in G \/ o \in G THEN None ELSE f[o]
BY DEF Without, Forest, Object

LEMMA ChainWithout ==
  ASSUME NEW f \in Forest, NEW G \in SUBSET Activities, Closed(f, G), NEW o \in Object, o \notin G
  PROVE  ChainOf(Without(f, G), o) = ChainOf(f, o) \ G
<1> DEFINE g == Without(f, G)
<1>1. g \in Forest /\ \A x \in Activities : g[x] = IF f[x] \in G \/ x \in G THEN None ELSE f[x]
  BY WithoutForest
<1> HIDE DEF g
<1>2. o # None => o \in ChainOf(f, o) /\ o \in ChainOf(g, o)
  BY ChainRoot DEF Object
<1>3. ChainOf(g, o) \subseteq ChainOf(f, o) \ G
  <2>1. Closed(g, ChainOf(f, o) \ G)
    BY <1>1, ChainClosed, ChainWithin DEF Closed
  <2> QED BY <2>1, <1>2, ChainWithin, ChainLeast
<1>4. ChainOf(f, o) \subseteq G \cup ChainOf(g, o)
  <2> DEFINE X == G \cup ChainOf(g, o)
  <2>1. Closed(f, X)
    <3> SUFFICES ASSUME NEW x \in X, f[x] # None, x \notin G, f[x] \notin G
                 PROVE  f[x] \in ChainOf(g, o)
      BY DEF Closed
    <3>1. x \in ChainOf(g, o) /\ g[x] = f[x]
      BY <1>1, ChainWithin
    <3> QED BY <1>1, <3>1, ChainClosed DEF Closed
  <2> QED BY <2>1, <1>2, ChainWithin, ChainLeast
<1> QED BY <1>3, <1>4 DEF g

LEMMA ChainShrinks ==
  ASSUME NEW f \in Forest, NEW G, NEW o \in Object
  PROVE  ChainOf(Without(f, G), o) \subseteq ChainOf(f, o)
<1> DEFINE g == Without(f, G)
<1>1. g \in Forest /\ \A x \in Activities : g[x] = IF f[x] \in G \/ x \in G THEN None ELSE f[x]
  BY WithoutForest
<1> HIDE DEF g
<1>2. Closed(g, ChainOf(f, o))
  BY <1>1, ChainClosed, ChainWithin DEF Closed
<1>3. ChainOf(g, o) \subseteq ChainOf(f, o)
  BY <1>2, ChainRoot, ChainWithin, ChainLeast DEF Object
<1> QED BY <1>3 DEF g

(* A childless t is given n, which nothing points to and which has no child *)
(* of its own: the chains that end in t get one longer.                     *)
Grown(X, t, n) == X \cup {x \in {n} : t \in X}

LEMMA ChainGrows ==
  ASSUME NEW f \in Forest, NEW t \in Activities, f[t] = None,
         NEW n \in Activities, n # t, f[n] = None,
         NEW g \in Forest, \A x \in Activities : g[x] = IF x = t THEN n ELSE f[x],
         NEW o \in Object
  PROVE  ChainOf(g, o) = Grown(ChainOf(f, o), t, n)
<1> DEFINE X == Grown(ChainOf(f, o), t, n)
<1> USE DEF Grown
<1>1. g \in Forest /\ g[t] = n /\ \A x \in Activities : x # t => g[x] = f[x]
  BY DEF Forest, Object
<1>2. o # None => o \in ChainOf(f, o) /\ o \in ChainOf(g, o)
  BY ChainRoot DEF Object
<1>3. X \in SUBSET Activities
  BY ChainWithin
<1>4. Closed(g, X)
  <2> SUFFICES ASSUME NEW x \in X, g[x] # None
               PROVE  g[x] \in X
    BY DEF Closed
  <2>1. CASE x = n
    BY <2>1, <1>1
  <2>2. CASE x = t
    <3>1. t \in ChainOf(f, o)
      BY <2>2
    <3> QED BY <3>1, <2>2, <1>1
  <2>3. CASE x # t /\ x # n
    BY <2>3, <1>1, <1>3, ChainClosed DEF Closed
  <2> QED BY <2>1, <2>2, <2>3
<1>5. ChainOf(g, o) \subseteq X
  BY <1>2, <1>3, <1>4, ChainLeast
<1>6. Closed(f, ChainOf(g, o))
  <2> SUFFICES ASSUME NEW x \in ChainOf(g, o), f[x] # None
               PROVE  f[x] \in ChainOf(g, o)
    BY DEF Closed
  <2>1. x \in Activities /\ x # t
    BY ChainWithin
  <2> QED BY <2>1, <1>1, ChainClosed DEF Closed
<1>7. ChainOf(f, o) \subseteq ChainOf(g, o)
  BY <1>2, <1>6, ChainWithin, ChainLeast
<1>8. t \in ChainOf(f, o) => n \in ChainOf(g, o)
  BY <1>1, <1>7, NoneIsNone, ChainClosed DEF Closed
<1> QED BY <1>1, <1>5, <1>7, <1>8

-----------------------------------------------------------------------------
(* The invariant. *)

Ops == {"loop", "pumped", "run", "enter", "navigate", "close", "free", "replace", "return"}
Frame == [op : Ops, o : Activities]

StackTyped ==
  /\ alive \in SUBSET Activities /\ entered \in SUBSET alive /\ exits \in [Activities -> Nat]
  /\ subActivity \in Forest /\ pending \in Forest
  /\ pendingExit \in [Activities -> BOOLEAN] /\ pumping \in [Activities -> BOOLEAN]
  /\ current \in Object /\ deferred \in Object /\ policy \in Object
  /\ stack \in Seq(Frame) /\ pass \in {"idle", "loop", "gesture"} /\ navs \in 0..2

(* The children and the replacements asked for: alive, each of one parent.  *)
Linked ==
  /\ \A o \in Activities : /\ {subActivity[o], pending[o]} \subseteq alive \cup {None}
                           /\ o \notin alive => subActivity[o] = None /\ pending[o] = None
  /\ Single(subActivity) /\ Single(pending)
  /\ \A o, p \in Activities : subActivity[o] = pending[p] => pending[p] = None

(* Two trees, of the current activity and of the one left before. *)
Rooted ==
  /\ {current, deferred} \subseteq alive \cup {None} /\ (current = deferred => current = None)
  /\ Root(subActivity, current) /\ Root(pending, current)
  /\ Root(subActivity, deferred) /\ Root(pending, deferred)

Reached == alive \subseteq Owned(current) \cup Owned(deferred)

(* Nothing of a replacement has run, and no call of it is under way. *)
Bare == \A p \in Activities : pending[p] # None =>
          /\ subActivity[pending[p]] = None /\ pending[pending[p]] = None
          /\ pending[p] \notin entered /\ exits[pending[p]] = 0
          /\ \A i \in 1..Len(stack) : stack[i].o # pending[p]

(* Only the innermost frame runs; it is of no ancestor of a frame around    *)
(* it, so what it frees below itself has no frame.                          *)
Nested ==
  /\ \A i \in 1..Len(stack) : i < Len(stack) => stack[i].op \in {"pumped", "return"}
  /\ \A i, j \in 1..Len(stack) : i < j => stack[i].o \notin Chain(subActivity[stack[j].o])

(* Before the first navigation of a pass every frame is of the current      *)
(* tree; until the second its object is alive.                              *)
Held == /\ navs = 0 => \A i \in 1..Len(stack) : stack[i].o \in Chain(current)
        /\ navs <= 1 => \A i \in 1..Len(stack) : stack[i].o \in alive

On(op) == stack # <<>> /\ stack[Len(stack)].op = op
Inner == stack[Len(stack)].o

Leaving == {"pumped", "return", "navigate"}

(* Where the innermost frame is tells what its object is.  *)
Runs ==
  /\ stack # <<>> => stack[Len(stack)].op \in Leaving \/ Inner \in Chain(current)
  /\ On("close") \/ On("free") => subActivity[Inner] # None
  /\ On("replace") => subActivity[Inner] = None /\ pending[Inner] # None
  /\ On("navigate") => current = None /\ Inner \in alive

Asked == \A o \in Activities : pendingExit[o] => o \in Chain(current)

Between == /\ current = None => On("navigate") \/ (pass = "gesture" /\ stack = <<>>)
           /\ current = None => navs > 0
           /\ pass = "idle" => stack = <<>>

(* onExit was called once for what was left, and not yet for the others. *)
ExitedOnce ==
  /\ \A o \in Chain(deferred) : exits[o] = 1
  /\ \A o \in Chain(current) :
       exits[o] = IF On("free") /\ o \in Chain(subActivity[Inner]) THEN 1 ELSE 0

PolicyHeld == current # None /\ ~On("free") =>
                policy \in Chain(current) /\ subActivity[policy] = None

StackInv == /\ StackTyped /\ Linked /\ Rooted /\ Reached /\ Bare /\ Nested /\ Held
            /\ Runs /\ Asked /\ Between /\ ExitedOnce /\ PolicyHeld

-----------------------------------------------------------------------------
(* What the invariant says of the two trees. *)

LEMMA AliveClosed ==
  ASSUME StackTyped, Linked, NEW o \in alive \cup {None}
  PROVE  Chain(o) \subseteq alive
<1>1. Closed(subActivity, alive)
  BY DEF Closed, Linked, StackTyped
<1> QED BY <1>1, ChainLeast DEF StackTyped, Chain

LEMMA OwnedAlive ==
  ASSUME StackTyped, Linked, NEW o \in alive \cup {None}
  PROVE  Owned(o) \subseteq alive
BY AliveClosed DEF Owned, Waiting, Linked, StackTyped

LEMMA ChildChain ==
  ASSUME StackTyped, NEW o \in Activities
  PROVE  /\ Chain(o) = {o} \cup Chain(subActivity[o])
         /\ Chain(subActivity[o]) \subseteq Activities
         /\ subActivity[o] # None => subActivity[o] \in Chain(subActivity[o])
BY ChainUnfold, ChainWithin, ChainRoot DEF StackTyped, Chain, Forest, Object

LEMMA ChainPart ==
  ASSUME StackTyped, NEW o, NEW x \in Chain(o)
  PROVE  /\ x \in Activities
         /\ Chain(x) \subseteq Chain(o)
         /\ Chain(subActivity[x]) \subseteq Chain(o)
BY ChainBelow, ChainUnfold, ChainWithin DEF StackTyped, Chain

LEMMA Apart ==
  ASSUME StackTyped, Linked, Rooted
  PROVE  Chain(current) \cap Chain(deferred) = {}
<1>1. CASE current = None
  BY <1>1, ChainNone DEF Chain
<1>2. CASE current # None
  BY <1>2, ChainsApart DEF StackTyped, Linked, Rooted, Chain
<1> QED BY <1>1, <1>2

LEMMA NotBelowItself ==
  ASSUME StackTyped, Linked, Rooted, NEW o \in Chain(current)
  PROVE  o \notin Chain(subActivity[o])
BY NoLoop DEF StackTyped, Linked, Rooted, Chain

(* A replacement asked for is in no chain but its own. *)
LEMMA WaitingOutside ==
  ASSUME StackTyped, Linked, NEW p \in Activities, pending[p] # None,
         NEW o \in Object, o # pending[p]
  PROVE  pending[p] \notin Chain(o)
<1> SUFFICES ASSUME pending[p] \in Chain(o)
             PROVE  FALSE
  OBVIOUS
<1>1. PICK w \in Chain(o) : subActivity[w] = pending[p]
  BY ChainParent DEF StackTyped, Chain
<1> QED BY <1>1, ChainWithin DEF Linked, Chain

LEMMA WaitingApart ==
  ASSUME StackTyped, Linked, Rooted, NEW X \in SUBSET Activities
  PROVE  /\ Waiting(X) \cap Chain(current) = {}
         /\ Waiting(X) \cap Chain(deferred) = {}
         /\ \A o \in Activities : Waiting(X) \cap Chain(subActivity[o]) = {}
<1> SUFFICES ASSUME NEW p \in X, pending[p] # None
             PROVE  /\ pending[p] \notin Chain(current) /\ pending[p] \notin Chain(deferred)
                    /\ \A o \in Activities : pending[p] \notin Chain(subActivity[o])
  BY DEF Waiting
<1>1. pending[p] # current /\ pending[p] # deferred
  BY DEF Rooted, Root
<1>2. \A o \in Activities : pending[p] # subActivity[o]
  BY DEF Linked
<1>3. \A o \in Activities : subActivity[o] \in Object
  BY DEF StackTyped, Forest
<1> QED BY <1>1, <1>2, <1>3, WaitingOutside DEF StackTyped

(* The parent of what is in the current tree is in it. *)
LEMMA ParentInside ==
  ASSUME StackTyped, Linked, Rooted, NEW p \in Activities, subActivity[p] \in Chain(current)
  PROVE  p \in Chain(current)
<1>1. subActivity[p] \in Activities /\ subActivity[p] # None
  BY ChainWithin, NoneIsNone DEF Chain
<1>2. subActivity[p] # current
  BY <1>1 DEF Rooted, Root
<1>3. PICK w \in Chain(current) : subActivity[w] = subActivity[p]
  BY <1>2, ChainParent DEF StackTyped, Chain
<1> QED BY <1>1, <1>3, ChainWithin DEF Linked, Single, Chain

-----------------------------------------------------------------------------
(* The call stack. *)

(* t is s or s without its innermost frame, whose place in the code of its  *)
(* object may have changed.                                                 *)
Trimmed(s, t) == /\ t \in Seq(Frame) /\ Len(t) <= Len(s)
                 /\ \A i \in 1..Len(t) : t[i].o = s[i].o /\ (i < Len(t) => t[i] = s[i])
                 /\ Len(t) < Len(s) => \A i \in 1..Len(t) : t[i] = s[i]

(* A frame of o is put on s, whose innermost frame waits for it. *)
Pushed(s, t, op, o) ==
  /\ t \in Seq(Frame) /\ Len(t) = Len(s) + 1
  /\ t[Len(t)].op = op /\ t[Len(t)].o = o
  /\ \A i \in 1..Len(s) : /\ t[i].o = s[i].o
                          /\ t[i].op = s[i].op \/ t[i].op \in {"pumped", "return"}
  /\ Len(s) > 0 => t[Len(s)].op \in {"pumped", "return"}

LEMMA TopIs ==
  ASSUME StackTyped, stack # <<>>
  PROVE  /\ Top = stack[Len(stack)] /\ Top.o = Inner /\ Inner \in Activities
         /\ Len(stack) \in Nat \ {0} /\ stack[Len(stack)] \in Frame
<1>1. stack \in Seq(Frame) /\ Len(stack) \in Nat \ {0}
  BY DEF StackTyped
<1>2. stack[Len(stack)] \in Frame
  BY <1>1
<1> QED BY <1>1, <1>2 DEF Top, Last, Frame, Inner

LEMMA BecomeIs ==
  ASSUME StackTyped, stack # <<>>, NEW op \in Ops
  PROVE  /\ Trimmed(stack, Become(op)) /\ Len(Become(op)) = Len(stack)
         /\ Become(op) # <<>>
         /\ Become(op)[Len(stack)].op = op /\ Become(op)[Len(stack)].o = Inner
         /\ Become(op)[Len(stack)] \in Frame
<1>1. Top = stack[Len(stack)] /\ Len(stack) \in Nat \ {0} /\ stack[Len(stack)] \in Frame
  BY TopIs
<1>2. PICK e : e = [Top EXCEPT !.op = op]
  OBVIOUS
<1>3. e \in Frame /\ e.op = op /\ e.o = stack[Len(stack)].o
  BY <1>1, <1>2 DEF Frame
<1>4. Become(op) = [stack EXCEPT ![Len(stack)] = e]
  BY <1>1, <1>2 DEF Become, ReplaceAt
<1>5. /\ Become(op) \in Seq(Frame) /\ Len(Become(op)) = Len(stack)
      /\ Become(op)[Len(stack)] = e
      /\ \A i \in 1..Len(stack) : i # Len(stack) => Become(op)[i] = stack[i]
  BY <1>1, <1>3, <1>4 DEF StackTyped
<1> QED BY <1>1, <1>3, <1>5 DEF Trimmed, Inner

LEMMA FrontIs ==
  ASSUME StackTyped, stack # <<>>
  PROVE  Trimmed(stack, Front(stack)) /\ Len(Front(stack)) = Len(stack) - 1
<1>1. stack \in Seq(Frame) /\ Len(stack) \in Nat \ {0}
  BY DEF StackTyped
<1>2. Front(stack) = SubSeq(stack, 1, Len(stack) - 1)
  BY DEF Front
<1>3. /\ Front(stack) \in Seq(Frame) /\ Len(Front(stack)) = Len(stack) - 1
      /\ \A i \in 1..Len(stack) - 1 : Front(stack)[i] = stack[i]
  <2>1. 1 \in Int /\ Len(stack) - 1 \in Int /\ \A i \in 1..Len(stack) - 1 : stack[i] \in Frame
    BY <1>1
  <2>2. PICK n \in Int : n = Len(stack) - 1
    BY <2>1
  <2>3. /\ SubSeq(stack, 1, n) \in Seq(Frame)
        /\ Len(SubSeq(stack, 1, n)) = IF 1 <= n THEN n - 1 + 1 ELSE 0
        /\ \A i \in 1..(n - 1 + 1) : SubSeq(stack, 1, n)[i] = stack[1 + i - 1]
    BY <2>1, <2>2, SubSeqProperties
  <2> QED BY <1>1, <1>2, <2>2, <2>3
<1> QED BY <1>1, <1>3 DEF Trimmed

LEMMA SameStack ==
  ASSUME StackTyped
  PROVE  Trimmed(stack, stack)
BY DEF StackTyped, Trimmed

LEMMA CallIs ==
  ASSUME StackTyped, stack = <<>>, NEW op \in Ops, NEW o \in Activities
  PROVE  Pushed(stack, Call(stack, op, o), op, o)
<1>1. [op |-> op, o |-> o] \in Frame
  BY DEF Frame
<1> QED BY <1>1 DEF StackTyped, Pushed, Call

LEMMA CallFromIs ==
  ASSUME StackTyped, stack # <<>>, NEW under \in {"pumped", "return"},
         NEW op \in Ops, NEW o \in Activities
  PROVE  Pushed(stack, Call(Become(under), op, o), op, o)
<1>1. under \in Ops
  BY DEF Ops
<1>2. PICK b : b = Become(under)
  OBVIOUS
<1>3. /\ Trimmed(stack, b) /\ Len(b) = Len(stack) /\ b[Len(stack)].op = under
      /\ Len(stack) \in Nat \ {0}
  BY <1>1, <1>2, BecomeIs, TopIs
<1>4. PICK e : e = [op |-> op, o |-> o]
  OBVIOUS
<1>5. e \in Frame /\ e.op = op /\ e.o = o
  BY <1>4 DEF Frame
<1>6. Call(Become(under), op, o) = Append(b, e)
  BY <1>2, <1>4 DEF Call
<1>7. b \in Seq(Frame)
  BY <1>3 DEF Trimmed
<1>8. /\ Append(b, e) \in Seq(Frame) /\ Len(Append(b, e)) = Len(stack) + 1
      /\ Append(b, e)[Len(stack) + 1] = e
      /\ \A i \in 1..Len(stack) : Append(b, e)[i] = b[i]
  BY <1>3, <1>5, <1>7
<1> QED BY <1>3, <1>5, <1>6, <1>8 DEF Trimmed, Pushed

(* What the invariant says of the frames survives a step that takes away    *)
(* frames and children, as long as the objects of the frames stay.          *)
LEMMA NestedTrimmed ==
  ASSUME StackTyped, Nested, Trimmed(stack, stack'), subActivity' \in Forest,
         \A o \in Activities :
           ChainOf(subActivity', subActivity'[o]) \subseteq Chain(subActivity[o])
  PROVE  Nested'
<1>1. \A i \in 1..Len(stack') : i \in 1..Len(stack) /\ stack[i].o \in Activities
  <2>1. Len(stack') \in Nat /\ Len(stack) \in Nat /\ Len(stack') <= Len(stack)
    BY DEF Trimmed, StackTyped
  <2>2. \A i \in 1..Len(stack) : stack[i] \in Frame
    BY DEF StackTyped
  <2> QED BY <2>1, <2>2 DEF Frame
<1>2. \A i \in 1..Len(stack') : i < Len(stack') => stack'[i].op \in {"pumped", "return"}
  BY <1>1 DEF Nested, Trimmed, StackTyped
<1>3. ASSUME NEW i \in 1..Len(stack'), NEW j \in 1..Len(stack'), i < j
      PROVE  stack'[i].o \notin ChainOf(subActivity', subActivity'[stack'[j].o])
  BY <1>1, <1>3 DEF Nested, Trimmed
<1> QED BY <1>2, <1>3 DEF Nested, Chain

(* The frame around the one that returned waits for it. *)
LEMMA ReturnedTo ==
  ASSUME StackTyped, Nested, stack # <<>>, stack' = Front(stack), stack' # <<>>
  PROVE  stack'[Len(stack')].op \in {"pumped", "return"}
<1>1. Trimmed(stack, stack') /\ Len(stack') = Len(stack) - 1
  BY FrontIs
<1>2. Len(stack') \in 1..Len(stack) /\ Len(stack') < Len(stack)
  BY <1>1 DEF Trimmed, StackTyped
<1> QED BY <1>1, <1>2 DEF Nested, Trimmed

LEMMA NestedPushed ==
  ASSUME StackTyped, Nested, NEW op, NEW o \in Activities, Pushed(stack, stack', op, o),
         \A i, j \in 1..Len(stack) : i < j =>
           stack[i].o \notin ChainOf(subActivity', subActivity'[stack[j].o]),
         \A i \in 1..Len(stack) : stack[i].o \notin ChainOf(subActivity', subActivity'[o])
  PROVE  Nested'
<1>1. Len(stack) \in Nat /\ Len(stack') = Len(stack) + 1 /\ stack'[Len(stack')].o = o
  BY DEF StackTyped, Pushed
<1>2. \A i \in 1..Len(stack) : stack'[i].o = stack[i].o
  BY DEF Pushed
<1>3. ASSUME NEW i \in 1..Len(stack'), i < Len(stack')
      PROVE  stack'[i].op \in {"pumped", "return"}
  <2>1. i \in 1..Len(stack)
    BY <1>1, <1>3
  <2> QED BY <1>1, <2>1 DEF Nested, Pushed
<1>4. ASSUME NEW i \in 1..Len(stack'), NEW j \in 1..Len(stack'), i < j
      PROVE  stack'[i].o \notin ChainOf(subActivity', subActivity'[stack'[j].o])
  <2>1. i \in 1..Len(stack) /\ stack'[i].o = stack[i].o
    BY <1>1, <1>2, <1>4
  <2>2. CASE j \in 1..Len(stack)
    BY <1>2, <1>4, <2>1, <2>2
  <2>3. CASE j = Len(stack')
    BY <1>1, <2>1, <2>3
  <2> QED BY <1>1, <2>2, <2>3
<1> QED BY <1>3, <1>4 DEF Nested, Chain

-----------------------------------------------------------------------------
(* Freeing. *)

(* With an activity its child and the replacement it was asked for go.      *)
Whole(gone) == gone \subseteq alive /\ Closed(subActivity, gone) /\ Closed(pending, gone)

LEMMA WholeOwned ==
  ASSUME StackTyped, Linked, Bare, NEW o \in alive \cup {None}
  PROVE  Whole(Owned(o))
<1>1. Owned(o) \subseteq alive
  BY OwnedAlive
<1>2. Closed(subActivity, Chain(o)) /\ Chain(o) \subseteq Activities
  BY ChainClosed, ChainWithin DEF Chain, StackTyped
<1>3. \A x \in Waiting(Chain(o)) : subActivity[x] = None /\ pending[x] = None
  BY <1>2 DEF Waiting, Bare
<1>4. \A x \in Chain(o) : pending[x] # None => pending[x] \in Waiting(Chain(o))
  BY DEF Waiting
<1> QED BY <1>1, <1>2, <1>3, <1>4 DEF Whole, Closed, Owned

LEMMA WholeWaiting ==
  ASSUME StackTyped, Linked, Bare, NEW X \in SUBSET Activities
  PROVE  Whole(Waiting(X))
<1>1. Waiting(X) \subseteq alive
  BY DEF Waiting, Linked
<1>2. \A x \in Waiting(X) : subActivity[x] = None /\ pending[x] = None
  BY DEF Waiting, Bare
<1> QED BY <1>1, <1>2 DEF Whole, Closed

LEMMA WholeUnion ==
  ASSUME NEW G, NEW H, Whole(G), Whole(H)
  PROVE  Whole(G \cup H)
BY DEF Whole, Closed

LEMMA DropTyped ==
  ASSUME StackTyped, NEW left, NEW gone, Drop(left, gone)
  PROVE  /\ alive' = alive \ gone /\ alive' \in SUBSET Activities /\ entered' \in SUBSET alive'
         /\ entered' = entered \ gone
         /\ exits' \in [Activities -> Nat]
         /\ subActivity' = Without(subActivity, gone) /\ subActivity' \in Forest
         /\ pending' = Without(pending, gone) /\ pending' \in Forest
         /\ pendingExit' \in [Activities -> BOOLEAN] /\ pumping' \in [Activities -> BOOLEAN]
         /\ \A o \in Activities :
              /\ exits'[o] = IF o \in gone THEN 0 ELSE IF o \in left THEN exits[o] + 1 ELSE exits[o]
              /\ subActivity'[o] = IF subActivity[o] \in gone
                 \/ o \in gone THEN None ELSE subActivity[o]
              /\ pending'[o] = IF pending[o] \in gone \/ o \in gone THEN None ELSE pending[o]
              /\ pendingExit'[o] <=> pendingExit[o] /\ o \notin left \cup gone
<1>1. /\ alive' = alive \ gone /\ entered' = entered \ gone
      /\ subActivity' = Without(subActivity, gone) /\ pending' = Without(pending, gone)
  BY DEF Drop
<1>2. /\ exits' \in [Activities -> Nat]
      /\ \A o \in Activities :
           exits'[o] = IF o \in gone THEN 0 ELSE IF o \in left THEN exits[o] + 1 ELSE exits[o]
  BY DEF Drop, StackTyped
<1>3. /\ pendingExit' \in [Activities -> BOOLEAN] /\ pumping' \in [Activities -> BOOLEAN]
      /\ \A o \in Activities : pendingExit'[o] <=> pendingExit[o] /\ o \notin left \cup gone
  BY DEF Drop, StackTyped
<1>4. /\ subActivity' \in Forest /\ pending' \in Forest
      /\ \A o \in Activities :
           /\ subActivity'[o] = IF subActivity[o] \in gone
              \/ o \in gone THEN None ELSE subActivity[o]
           /\ pending'[o] = IF pending[o] \in gone \/ o \in gone THEN None ELSE pending[o]
  BY <1>1, WithoutForest DEF StackTyped
<1> QED BY <1>1, <1>2, <1>3, <1>4 DEF StackTyped

LEMMA DropLinked ==
  ASSUME StackTyped, Linked, NEW left, NEW gone, Whole(gone), Drop(left, gone)
  PROVE  Linked'
<1>1. /\ alive' = alive \ gone
      /\ \A o \in Activities :
           /\ subActivity'[o] = IF subActivity[o] \in gone
              \/ o \in gone THEN None ELSE subActivity[o]
           /\ pending'[o] = IF pending[o] \in gone \/ o \in gone THEN None ELSE pending[o]
  BY DropTyped
<1>2. gone \subseteq Activities
  BY DEF Whole, StackTyped
<1>3. \A o \in Activities : /\ {subActivity'[o], pending'[o]} \subseteq alive' \cup {None}
                            /\ o \notin alive' => subActivity'[o] = None /\ pending'[o] = None
  BY <1>1, <1>2 DEF Linked
<1>4. Single(subActivity') /\ Single(pending')
  BY <1>1 DEF Linked, Single
<1>5. \A o, p \in Activities : subActivity'[o] = pending'[p] => pending'[p] = None
  BY <1>1 DEF Linked
<1> QED BY <1>3, <1>4, <1>5 DEF Linked

LEMMA DropRoot ==
  ASSUME StackTyped, NEW left, NEW gone, Drop(left, gone), NEW c
  PROVE  /\ Root(subActivity, c) => Root(subActivity', c)
         /\ Root(pending, c) => Root(pending', c)
BY DropTyped DEF Root

LEMMA DropChains ==
  ASSUME StackTyped, Linked, NEW left, NEW gone, Whole(gone), Drop(left, gone)
  PROVE  /\ \A o \in Object : o \notin gone => ChainOf(subActivity', o) = Chain(o) \ gone
         /\ \A o \in Object : ChainOf(subActivity', o) \subseteq Chain(o)
         /\ \A o \in Activities :
              ChainOf(subActivity', subActivity'[o]) \subseteq Chain(subActivity[o])
<1>1. subActivity' = Without(subActivity, gone) /\ gone \in SUBSET Activities
  BY DropTyped DEF Whole, StackTyped
<1>2. ASSUME NEW o \in Object, o \notin gone
      PROVE  ChainOf(subActivity', o) = Chain(o) \ gone
  BY <1>1, <1>2, ChainWithout DEF StackTyped, Chain, Whole
<1>3. ASSUME NEW o \in Object
      PROVE  ChainOf(subActivity', o) \subseteq Chain(o)
  BY <1>1, ChainShrinks DEF StackTyped, Chain
<1>4. ASSUME NEW o \in Activities
      PROVE  ChainOf(subActivity', subActivity'[o]) \subseteq Chain(subActivity[o])
  <2>1. subActivity'[o] = None \/ subActivity'[o] = subActivity[o]
    BY DropTyped
  <2>2. subActivity[o] \in Object
    BY DEF StackTyped, Forest
  <2> QED BY <2>1, <2>2, <1>3, ChainNone
<1> QED BY <1>2, <1>3, <1>4

(* What a surviving root owned and what survives it still owns. *)
LEMMA DropOwned ==
  ASSUME StackTyped, Linked, NEW left, NEW gone, Whole(gone), Drop(left, gone),
         NEW o \in Object, o \notin gone
  PROVE  Owned(o) \ gone \subseteq
           ChainOf(subActivity', o) \cup
             ({pending'[x] : x \in ChainOf(subActivity', o)} \ {None})
<1>1. ChainOf(subActivity', o) = Chain(o) \ gone /\ Chain(o) \subseteq Activities
  BY DropChains, ChainWithin DEF Chain
<1>2. ASSUME NEW x \in Chain(o), pending[x] # None, pending[x] \notin gone
      PROVE  x \in ChainOf(subActivity', o) /\ pending'[x] = pending[x]
  <2>1. x \notin gone
    BY <1>2 DEF Whole, Closed
  <2> QED BY <1>1, <1>2, <2>1, DropTyped
<1> QED BY <1>1, <1>2 DEF Owned, Waiting

LEMMA DropBare ==
  ASSUME StackTyped, Linked, Bare, NEW left, NEW gone, Whole(gone), Drop(left, gone),
         Trimmed(stack, stack'),
         \A p \in Activities : pending[p] # None /\ pending[p] \notin gone => pending[p] \notin left
  PROVE  Bare'
<1> SUFFICES ASSUME NEW p \in Activities, pending'[p] # None
             PROVE  /\ subActivity'[pending'[p]] = None /\ pending'[pending'[p]] = None
                    /\ pending'[p] \notin entered' /\ exits'[pending'[p]] = 0
                    /\ \A i \in 1..Len(stack') : stack'[i].o # pending'[p]
  BY DEF Bare
<1>1. pending'[p] = pending[p] /\ pending[p] \notin gone /\ pending[p] \in Activities
  BY DropTyped DEF StackTyped, Forest, Object
<1>2. subActivity'[pending[p]] = None /\ pending'[pending[p]] = None
  BY <1>1, DropTyped DEF Bare
<1>3. pending[p] \notin entered' /\ exits'[pending[p]] = 0
  BY <1>1, DropTyped DEF Bare
<1>4. \A i \in 1..Len(stack') : i \in 1..Len(stack) /\ stack'[i].o = stack[i].o
  BY DEF Trimmed, StackTyped
<1> QED BY <1>1, <1>2, <1>3, <1>4 DEF Bare

-----------------------------------------------------------------------------
(* What a root and the freed have in common: nothing. *)

LEMMA Spared ==
  ASSUME StackTyped, Linked, Rooted
  PROVE  /\ current # None => current \in Chain(current)
         /\ deferred # None => deferred \in Chain(deferred)
         /\ Chain(current) \cap Owned(deferred) = {}
         /\ \A X \in SUBSET Activities : /\ Waiting(X) \cap Chain(current) = {}
                                         /\ Waiting(X) \cap Chain(deferred) = {}
         /\ \A p \in Activities : pending[p] # None => /\ pending[p] \notin Chain(current)
                                                       /\ pending[p] \notin Chain(deferred)
<1>1. \A X \in SUBSET Activities : /\ Waiting(X) \cap Chain(current) = {}
                                   /\ Waiting(X) \cap Chain(deferred) = {}
  BY WaitingApart
<1>2. Chain(deferred) \in SUBSET Activities
  BY ChainWithin DEF Chain
<1>3. Chain(current) \cap Owned(deferred) = {}
  BY <1>1, <1>2, Apart DEF Owned
<1>4. \A p \in Activities : pending[p] # None => pending[p] \in Waiting(Activities)
  BY DEF Waiting
<1> QED BY <1>1, <1>3, <1>4, ChainRoot DEF StackTyped, Object, Chain

(* What a step frees was left by onExit, if it was ever entered. *)
LeftFirst == \A o \in alive \ alive' : o \in entered => exits[o] = 1

(* The navigation away: the tree of the current activity, left by onExit,   *)
(* becomes the deferred one.                                                *)
LEMMA ExitTree ==
  ASSUME StackInv, current # None, ExitGlobal, Trimmed(stack, stack')
  PROVE  /\ alive' \in SUBSET Activities /\ entered' \in SUBSET alive'
         /\ exits' \in [Activities -> Nat]
         /\ subActivity' \in Forest /\ pending' \in Forest
         /\ pendingExit' \in [Activities -> BOOLEAN] /\ pumping' \in [Activities -> BOOLEAN]
         /\ current' = None /\ deferred' = current /\ policy' = None
         /\ Linked' /\ Rooted' /\ Reached' /\ Bare' /\ Nested'
         /\ \A o \in Activities : ~pendingExit'[o]
         /\ Chain(current) \subseteq alive'
         /\ ChainOf(subActivity', current) = Chain(current)
         /\ \A o \in Chain(current) : exits'[o] = exits[o] + 1
         /\ LeftFirst
<1> DEFINE G == Waiting(Chain(current)) \cup Owned(deferred)
<1> USE DEF StackInv
<1>1. Drop(Chain(current), G) /\ deferred' = current /\ current' = None /\ policy' = None
  BY DEF ExitGlobal
<1>2. Chain(current) \in SUBSET Activities /\ Chain(deferred) \in SUBSET Activities
  BY ChainWithin DEF Chain
<1>3. Whole(G)
  <2>1. Whole(Waiting(Chain(current)))
    BY <1>2, WholeWaiting
  <2>2. Whole(Owned(deferred))
    BY WholeOwned DEF Rooted
  <2> QED BY <2>1, <2>2, WholeUnion
<1>4. G \cap Chain(current) = {} /\ current \in Chain(current)
  BY <1>2, Spared
<1>5. G = Waiting(Chain(current)) \cup Chain(deferred) \cup Waiting(Chain(deferred))
  BY DEF Owned
<1> HIDE DEF G
<1>6. /\ alive' = alive \ G /\ alive' \in SUBSET Activities /\ entered' \in SUBSET alive'
      /\ exits' \in [Activities -> Nat]
      /\ subActivity' \in Forest /\ pending' \in Forest
      /\ pendingExit' \in [Activities -> BOOLEAN] /\ pumping' \in [Activities -> BOOLEAN]
      /\ \A o \in Activities :
           /\ exits'[o] = IF o \in G THEN 0
                        ELSE IF o \in Chain(current) THEN exits[o] + 1 ELSE exits[o]
           /\ pendingExit'[o] <=> pendingExit[o] /\ o \notin Chain(current) \cup G
  BY <1>1, DropTyped
<1>7. Linked'
  BY <1>1, <1>3, DropLinked
<1>8. Chain(current) \subseteq alive'
  BY <1>4, <1>6, AliveClosed DEF Rooted
<1>9. Rooted'
  <2>1. Root(subActivity', current) /\ Root(pending', current)
    BY <1>1, DropRoot DEF Rooted
  <2>2. Root(subActivity', None) /\ Root(pending', None)
    BY DEF Root, Object
  <2> QED BY <1>1, <1>4, <1>8, <2>1, <2>2 DEF Rooted
<1>10. ChainOf(subActivity', current) = Chain(current)
  <2>1. current \notin G
    BY <1>4
  <2>2. ChainOf(subActivity', current) = Chain(current) \ G
    BY <1>1, <1>3, <2>1, DropChains DEF StackTyped
  <2> QED BY <2>2, <1>4
<1>11. Reached'
  <2>1. alive \ G \subseteq Chain(current)
    BY <1>5 DEF Reached, Owned
  <2> QED BY <1>1, <1>6, <1>10, <2>1 DEF Reached, Owned, Chain
<1>12. Bare'
  BY <1>1, <1>3, Spared, DropBare
<1>13. Nested'
  <2>1. \A o \in Activities :
          ChainOf(subActivity', subActivity'[o]) \subseteq Chain(subActivity[o])
    BY <1>1, <1>3, DropChains
  <2> QED BY <1>6, <2>1, NestedTrimmed
<1>14. \A o \in Activities : ~pendingExit'[o]
  BY <1>6 DEF Asked
<1>15. \A o \in Chain(current) : exits'[o] = exits[o] + 1
  BY <1>2, <1>4, <1>6
<1>16. LeftFirst
  <2> SUFFICES ASSUME NEW o \in entered, o \in alive, o \in G
               PROVE  exits[o] = 1
    BY <1>6 DEF LeftFirst
  <2>1. \A p \in Activities : pending[p] # None => pending[p] \notin entered
    BY DEF Bare
  <2>2. o \in Chain(deferred)
    BY <1>2, <1>5, <2>1 DEF Waiting
  <2> QED BY <2>2 DEF ExitedOnce
<1> QED BY <1>1, <1>6, <1>7, <1>8, <1>9, <1>10, <1>11, <1>12, <1>13, <1>14, <1>15, <1>16

-----------------------------------------------------------------------------
(* Every step keeps the invariant. *)

LEMMA AtIs ==
  ASSUME StackTyped, NEW op, At(op)
  PROVE  On(op) /\ stack # <<>> /\ stack[Len(stack)].op = op /\ Top.o = Inner
         /\ Inner \in alive /\ Inner \in Activities
BY TopIs DEF At, On, StackTyped

LEMMA NavigateInv ==
  ASSUME StackInv, Navigate
  PROVE  StackInv' /\ LeftFirst
<1> USE DEF StackInv
<1>1. current # None /\ ExitGlobal /\ stack' = Become("navigate") /\ pass' = pass
      /\ navs' = IF navs < 2 THEN navs + 1 ELSE 2
  BY DEF Navigate
<1>2. stack # <<>> /\ (On("run") \/ On("enter")) /\ Inner \in Activities
  BY AtIs DEF Navigate
<1>3. /\ Trimmed(stack, stack') /\ Len(stack') = Len(stack) /\ stack' # <<>>
      /\ stack'[Len(stack')].op = "navigate" /\ stack'[Len(stack')].o = Inner
  BY <1>1, <1>2, BecomeIs DEF Ops
<1>4. ~On("free") /\ Inner \in Chain(current)
  BY <1>2 DEF On, Runs, Leaving
<1>5. navs' \in 1..2 /\ (navs' = 1 => navs = 0)
  BY <1>1 DEF StackTyped
<1>6. StackTyped' /\ Linked' /\ Rooted' /\ Reached' /\ Bare' /\ Nested' /\ LeftFirst
  BY <1>1, <1>3, <1>5, ExitTree DEF StackTyped, Trimmed, Object
<1>7. Held'
  <2> SUFFICES ASSUME navs' = 1, NEW i \in 1..Len(stack')
               PROVE  stack'[i].o \in alive'
    BY <1>5 DEF Held, StackTyped
  <2>1. stack'[i].o = stack[i].o
    BY <1>3 DEF Trimmed
  <2>2. stack[i].o \in Chain(current)
    BY <1>3, <1>5 DEF Held
  <2> QED BY <1>1, <1>3, <2>1, <2>2, ExitTree
<1>8. Runs'
  <2>1. current' = None /\ Inner \in alive'
    BY <1>1, <1>3, <1>4, ExitTree
  <2> QED BY <1>3, <2>1 DEF Runs, On, Inner, Leaving
<1>9. Asked'
  BY <1>1, <1>3, ExitTree DEF Asked
<1>10. Between'
  BY <1>1, <1>2, <1>3, <1>5 DEF Between, On
<1>11. ExitedOnce'
  <2>1. ChainOf(subActivity', current') = {}
    BY <1>1, <1>3, ChainNone, ExitTree
  <2>2. \A o \in ChainOf(subActivity', deferred') : exits'[o] = 1
    BY <1>1, <1>3, <1>4, ExitTree DEF ExitedOnce
  <2> QED BY <2>1, <2>2 DEF ExitedOnce, Chain
<1>12. PolicyHeld'
  BY <1>1, <1>3, ExitTree DEF PolicyHeld
<1> QED BY <1>6, <1>7, <1>8, <1>9, <1>10, <1>11, <1>12

LEMMA NavigateByGestureInv ==
  ASSUME StackInv, NavigateByGesture
  PROVE  StackInv' /\ LeftFirst
<1> USE DEF StackInv
<1>1. /\ ExitGlobal /\ stack = <<>> /\ stack' = stack /\ pass = "gesture" /\ pass' = pass
      /\ navs' = 1 /\ current # None
  BY DEF NavigateByGesture, Between
<1>2. Trimmed(stack, stack') /\ Len(stack') = 0
  BY <1>1, SameStack DEF StackTyped
<1>3. StackTyped' /\ Linked' /\ Rooted' /\ Reached' /\ Bare' /\ Nested' /\ LeftFirst
  BY <1>1, <1>2, ExitTree DEF StackTyped, Trimmed, Object
<1>4. Held' /\ Runs'
  BY <1>1, <1>2 DEF Held, Runs, On
<1>5. Asked'
  BY <1>1, <1>2, ExitTree DEF Asked
<1>6. Between'
  BY <1>1 DEF Between
<1>7. ExitedOnce'
  <2>1. ChainOf(subActivity', current') = {}
    BY <1>1, <1>2, ChainNone, ExitTree
  <2>2. \A o \in ChainOf(subActivity', deferred') : exits'[o] = 1
    BY <1>1, <1>2, ExitTree DEF ExitedOnce, On
  <2> QED BY <2>1, <2>2 DEF ExitedOnce, Chain
<1>8. PolicyHeld'
  BY <1>1, <1>2, ExitTree DEF PolicyHeld
<1> QED BY <1>3, <1>4, <1>5, <1>6, <1>7, <1>8

LEMMA EndPassInv ==
  ASSUME StackInv, EndPass
  PROVE  StackInv' /\ LeftFirst
<1> DEFINE G == Owned(deferred)
<1> USE DEF StackInv
<1>1. /\ Drop({}, G) /\ deferred' = None /\ current' = current /\ policy' = policy
      /\ stack = <<>> /\ stack' = stack /\ pass = "loop" /\ pass' = "idle" /\ navs' = navs
  BY DEF EndPass
<1>2. Trimmed(stack, stack') /\ Len(stack') = 0 /\ current # None
  BY <1>1, SameStack DEF StackTyped, Between, On
<1>3. Whole(G)
  BY WholeOwned DEF Rooted
<1>4. G \cap Chain(current) = {} /\ current \in Chain(current)
  BY <1>2, Spared
<1>5. G = Chain(deferred) \cup Waiting(Chain(deferred)) /\ Chain(deferred) \subseteq Activities
  BY ChainWithin DEF Owned, Chain
<1> HIDE DEF G
<1>6. StackTyped'
  BY <1>1, <1>2, DropTyped DEF StackTyped, Trimmed, Object
<1>7. Linked'
  BY <1>1, <1>3, DropLinked
<1>8. Rooted'
  <2>1. Root(subActivity', current) /\ Root(pending', current)
    BY <1>1, DropRoot DEF Rooted
  <2>2. Root(subActivity', None) /\ Root(pending', None)
    BY DEF Root, Object
  <2>3. current \in alive'
    BY <1>1, <1>2, <1>4, DropTyped DEF Rooted
  <2> QED BY <1>1, <2>1, <2>2, <2>3 DEF Rooted
<1>9. ChainOf(subActivity', current) = Chain(current)
  <2>1. ChainOf(subActivity', current) = Chain(current) \ G
    BY <1>1, <1>3, <1>4, DropChains DEF StackTyped
  <2> QED BY <2>1, <1>4
<1>10. Reached'
  <2>1. Owned(current) \ G \subseteq
          ChainOf(subActivity', current) \cup
            ({pending'[x] : x \in ChainOf(subActivity', current)} \ {None})
    BY <1>1, <1>3, <1>4, DropOwned DEF StackTyped
  <2>2. alive' \subseteq Owned(current) \ G
    BY <1>1, <1>5, DropTyped DEF Reached, Owned
  <2> QED BY <1>1, <2>1, <2>2 DEF Reached, Owned, Waiting, Chain
<1>11. Bare'
  BY <1>1, <1>2, <1>3, DropBare
<1>12. Nested'
  <2>1. \A o \in Activities :
          ChainOf(subActivity', subActivity'[o]) \subseteq Chain(subActivity[o])
    BY <1>1, <1>3, DropChains
  <2> QED BY <1>2, <1>6, <2>1, NestedTrimmed DEF StackTyped
<1>13. Held' /\ Runs' /\ Between'
  BY <1>1, <1>2 DEF Held, Runs, On, Between
<1>14. Asked'
  BY <1>1, <1>9, DropTyped DEF Asked, Chain
<1>15. ExitedOnce'
  <2>1. ChainOf(subActivity', deferred') = {}
    BY <1>1, ChainNone
  <2>2. \A o \in Chain(current) : exits'[o] = exits[o] /\ exits[o] = 0
    BY <1>1, <1>4, DropTyped, ChainWithin DEF ExitedOnce, On, Chain
  <2> QED BY <1>1, <1>9, <2>1, <2>2 DEF ExitedOnce, On, Chain
<1>16. PolicyHeld'
  <2>1. policy \in Chain(current) /\ subActivity[policy] = None
    BY <1>1, <1>2 DEF PolicyHeld, On
  <2>2. subActivity'[policy] = None
    BY <1>1, <2>1, DropTyped, ChainWithin DEF Chain
  <2> QED BY <1>1, <1>9, <2>1, <2>2 DEF PolicyHeld, Chain
<1>17. LeftFirst
  <2> SUFFICES ASSUME NEW o \in G, o \in entered
               PROVE  exits[o] = 1
    BY <1>1, DropTyped DEF LeftFirst
  <2>1. o \in Chain(deferred)
    BY <1>5 DEF Waiting, Bare
  <2> QED BY <2>1 DEF ExitedOnce
<1> QED BY <1>6, <1>7, <1>8, <1>10, <1>11, <1>12, <1>13, <1>14, <1>15, <1>16, <1>17

(* onExit of the child and what is below it. *)
LEMMA CloseChildInv ==
  ASSUME StackInv, CloseChild
  PROVE  StackInv' /\ LeftFirst
<1> DEFINE left == Chain(subActivity[Inner])
           G == Waiting(left)
<1> USE DEF StackInv
<1>1. /\ On("close") /\ stack # <<>> /\ Top.o = Inner /\ Inner \in Activities /\ Inner \in alive
  BY AtIs DEF CloseChild
<1>2. /\ Drop(left, G) /\ policy' = None /\ stack' = Become("free")
      /\ current' = current /\ deferred' = deferred /\ pass' = pass /\ navs' = navs
  BY <1>1 DEF CloseChild, globals
<1>3. /\ Trimmed(stack, stack') /\ Len(stack') = Len(stack) /\ stack' # <<>>
      /\ stack'[Len(stack)].op = "free" /\ stack'[Len(stack)].o = Inner
  BY <1>1, <1>2, BecomeIs DEF Ops
<1>4. Inner \in Chain(current) /\ subActivity[Inner] # None /\ current # None
  <2>1. Inner \in Chain(current) /\ subActivity[Inner] # None
    BY <1>1 DEF Runs, On, Leaving
  <2> QED BY <2>1, ChainNone DEF Chain
<1>5. /\ left \in SUBSET Activities /\ left \subseteq Chain(current)
      /\ subActivity[Inner] \in left /\ Inner \notin left
  BY <1>1, <1>4, ChildChain, ChainPart, NotBelowItself
<1> HIDE DEF left
<1>6. Whole(G)
  BY <1>5, WholeWaiting
<1>7. /\ G \cap Chain(current) = {} /\ G \cap Chain(deferred) = {}
      /\ current \notin G /\ deferred \notin G
  <2>1. None \notin G
    BY DEF Waiting
  <2> QED BY <1>5, <2>1, Spared
<1>8. \A p \in Activities : pending[p] # None => pending[p] \notin left
  BY <1>5, Spared
<1>9. \A o \in Activities : pending[o] # None => pending[o] \notin entered
  BY DEF Bare
<1>10. LeftFirst
  BY <1>2, <1>5, <1>9, DropTyped DEF LeftFirst, Waiting
<1>11. \A i \in 1..Len(stack) : stack[i].o \notin G
  BY <1>5 DEF Waiting, Bare
<1> HIDE DEF G
<1>12. StackTyped'
  BY <1>2, <1>3, DropTyped DEF StackTyped, Trimmed, Object
<1>13. Linked'
  BY <1>2, <1>6, DropLinked
<1>14. Rooted'
  <2>1. \A c \in {current, deferred} : Root(subActivity', c) /\ Root(pending', c)
    BY <1>2, DropRoot DEF Rooted
  <2>2. {current, deferred} \subseteq alive' \cup {None}
    BY <1>2, <1>7, DropTyped DEF Rooted
  <2> QED BY <1>2, <2>1, <2>2 DEF Rooted
<1>15. /\ ChainOf(subActivity', current) = Chain(current)
       /\ ChainOf(subActivity', deferred) = Chain(deferred)
  <2>1. \A o \in {current, deferred} : ChainOf(subActivity', o) = Chain(o) \ G
    BY <1>2, <1>6, <1>7, DropChains DEF StackTyped
  <2> QED BY <1>7, <2>1
<1>16. ChainOf(subActivity', subActivity'[Inner]) = left /\ subActivity'[Inner] # None
  <2>1. subActivity[Inner] \notin G /\ Inner \notin G
    BY <1>4, <1>5, <1>7
  <2>2. subActivity'[Inner] = subActivity[Inner]
    BY <1>1, <1>2, <2>1, DropTyped
  <2>3. ChainOf(subActivity', subActivity[Inner]) = left \ G
    BY <1>1, <1>2, <1>6, <2>1, DropChains DEF StackTyped, Forest, left
  <2> QED BY <1>4, <1>5, <1>7, <2>2, <2>3
<1>17. Reached'
  <2>1. \A o \in {current, deferred} : Owned(o) \ G \subseteq
          ChainOf(subActivity', o) \cup ({pending'[x] : x \in ChainOf(subActivity', o)} \ {None})
    BY <1>2, <1>6, <1>7, DropOwned DEF StackTyped
  <2>2. alive' \subseteq (Owned(current) \ G) \cup (Owned(deferred) \ G)
    BY <1>2, DropTyped DEF Reached
  <2> QED BY <1>2, <2>1, <2>2 DEF Reached, Owned, Waiting, Chain
<1>18. Bare'
  BY <1>2, <1>3, <1>6, <1>8, DropBare
<1>19. Nested'
  <2>1. \A o \in Activities :
          ChainOf(subActivity', subActivity'[o]) \subseteq Chain(subActivity[o])
    BY <1>2, <1>6, DropChains
  <2> QED BY <1>3, <1>12, <2>1, NestedTrimmed DEF StackTyped
<1>20. Held'
  <2>1. \A i \in 1..Len(stack') : i \in 1..Len(stack) /\ stack'[i].o = stack[i].o
    BY <1>3 DEF Trimmed
  <2> QED BY <1>2, <1>11, <1>15, <2>1, DropTyped DEF Held, Chain
<1>21. Runs'
  BY <1>2, <1>3, <1>4, <1>15, <1>16 DEF Runs, On, Inner, Chain
<1>22. Asked'
  BY <1>2, <1>15, DropTyped DEF Asked, Chain
<1>23. Between'
  BY <1>1, <1>2, <1>4 DEF Between
<1>24. ExitedOnce'
  <2>1. On("free")' /\ Inner' = Inner
    BY <1>3 DEF On, Inner
  <2>2. \A o \in Chain(deferred) : o \in Activities /\ o \notin left /\ o \notin G /\ exits[o] = 1
    BY <1>5, <1>7, Apart, ChainWithin DEF ExitedOnce, Chain
  <2>3. \A o \in Chain(deferred) : exits'[o] = 1
    BY <1>2, <2>2, DropTyped
  <2>4. \A o \in Chain(current) : o \in Activities /\ o \notin G /\ exits[o] = 0
    BY <1>1, <1>7, ChainWithin DEF ExitedOnce, On, Chain
  <2>5. \A o \in Chain(current) : exits'[o] = IF o \in left THEN 1 ELSE 0
    BY <1>2, <2>4, DropTyped
  <2> QED BY <1>2, <1>15, <1>16, <2>1, <2>3, <2>5 DEF ExitedOnce, Chain
<1>25. PolicyHeld'
  BY <1>3 DEF PolicyHeld, On
<1> QED BY <1>10, <1>12, <1>13, <1>14, <1>17, <1>18, <1>19, <1>20, <1>21, <1>22, <1>23, <1>24, <1>25

(* The child and what is below it are freed: all of it left, none with a    *)
(* frame, and the parent spared.                                            *)
LEMMA FreeChildInv ==
  ASSUME StackInv, FreeChild
  PROVE  StackInv' /\ LeftFirst
<1> DEFINE left == Chain(subActivity[Inner])
           G == Owned(subActivity[Inner])
<1> USE DEF StackInv
<1>1. /\ On("free") /\ stack # <<>> /\ Top.o = Inner /\ Inner \in Activities /\ Inner \in alive
  BY AtIs DEF FreeChild
<1>2. /\ Drop({}, G) /\ policy' = Inner
      /\ stack' = IF pending[Inner] = None THEN Front(stack) ELSE Become("replace")
      /\ current' = current /\ deferred' = deferred /\ pass' = pass /\ navs' = navs
  BY <1>1 DEF FreeChild, globals
<1>3. Inner \in Chain(current) /\ subActivity[Inner] # None /\ current # None
  <2>1. Inner \in Chain(current) /\ subActivity[Inner] # None
    BY <1>1 DEF Runs, On, Leaving
  <2> QED BY <2>1, ChainNone DEF Chain
<1>4. /\ left \in SUBSET Activities /\ left \subseteq Chain(current)
      /\ subActivity[Inner] \in left /\ Inner \notin left
  BY <1>1, <1>3, ChildChain, ChainPart, NotBelowItself
<1>5. G = left \cup Waiting(left) /\ Whole(G)
  BY <1>1, WholeOwned DEF Owned, Linked
<1>6. \A i \in 1..Len(stack) : stack[i].o \notin left
  <2>1. Len(stack) \in Nat \ {0}
    BY <1>1, TopIs
  <2>2. ASSUME NEW i \in 1..Len(stack), i < Len(stack)
        PROVE  stack[i].o \notin left
    BY <2>1, <2>2 DEF Nested, Inner
  <2> QED BY <1>4, <2>1, <2>2 DEF Inner
<1>7. current \notin left
  <2>1. current \in left => Chain(current) \subseteq left
    BY ChainPart
  <2> QED BY <1>3, <1>4, <2>1
<1> HIDE DEF left, G
<1>8. \A i \in 1..Len(stack) : stack[i].o \notin G
  BY <1>4, <1>5, <1>6 DEF Waiting, Bare
<1>9. Inner \notin G /\ current \notin G /\ deferred \notin G /\ G \cap Chain(deferred) = {}
  <2>1. None \notin left /\ None \notin Waiting(left)
    BY <1>4, NoneIsNone DEF Waiting
  <2>2. current \in Chain(current)
    BY <1>3, Spared
  <2>3. Inner \notin Waiting(left) /\ current \notin Waiting(left)
    BY <1>3, <1>4, <2>2, Spared
  <2>4. G \cap Chain(deferred) = {}
    BY <1>4, <1>5, Spared, Apart
  <2> QED BY <1>4, <1>5, <1>7, <2>1, <2>3, <2>4, Spared
<1>10. pending[Inner] \notin G
  <2> SUFFICES ASSUME pending[Inner] # None
               PROVE  pending[Inner] \notin G
    BY <1>4, <1>5, NoneIsNone DEF Waiting
  <2>1. pending[Inner] \notin left
    BY <1>1, <1>4, Spared
  <2>2. pending[Inner] \notin Waiting(left)
    BY <1>1, <1>4 DEF Waiting, Linked, Single
  <2> QED BY <1>5, <2>1, <2>2
<1>11. /\ Trimmed(stack, stack')
       /\ stack' # <<>> => \/ stack'[Len(stack')].op \in {"pumped", "return"}
                           \/ /\ pending[Inner] # None
                              /\ stack'[Len(stack')].op = "replace" /\ stack'[Len(stack')].o = Inner
  <2>1. CASE pending[Inner] = None
    BY <1>1, <1>2, <2>1, FrontIs, ReturnedTo
  <2>2. CASE pending[Inner] # None
    BY <1>1, <1>2, <2>2, BecomeIs DEF Ops
  <2> QED BY <2>1, <2>2
<1>12. StackTyped'
  BY <1>1, <1>2, <1>11, DropTyped DEF StackTyped, Trimmed, Object
<1>13. Linked'
  BY <1>2, <1>5, DropLinked
<1>14. Rooted'
  <2>1. \A c \in {current, deferred} : Root(subActivity', c) /\ Root(pending', c)
    BY <1>2, DropRoot DEF Rooted
  <2>2. {current, deferred} \subseteq alive' \cup {None}
    BY <1>2, <1>9, DropTyped DEF Rooted
  <2> QED BY <1>2, <2>1, <2>2 DEF Rooted
<1>15. /\ ChainOf(subActivity', current) = Chain(current) \ G
       /\ ChainOf(subActivity', deferred) = Chain(deferred)
  <2>1. \A o \in {current, deferred} : ChainOf(subActivity', o) = Chain(o) \ G
    BY <1>2, <1>5, <1>9, DropChains DEF StackTyped
  <2> QED BY <1>9, <2>1
<1>16. subActivity'[Inner] = None /\ pending'[Inner] = pending[Inner]
  BY <1>1, <1>2, <1>4, <1>5, <1>9, <1>10, DropTyped
<1>17. Reached'
  <2>1. \A o \in {current, deferred} : Owned(o) \ G \subseteq
          ChainOf(subActivity', o) \cup ({pending'[x] : x \in ChainOf(subActivity', o)} \ {None})
    BY <1>2, <1>5, <1>9, DropOwned DEF StackTyped
  <2>2. alive' \subseteq (Owned(current) \ G) \cup (Owned(deferred) \ G)
    BY <1>2, DropTyped DEF Reached
  <2> QED BY <1>2, <2>1, <2>2 DEF Reached, Owned, Waiting, Chain
<1>18. Bare'
  BY <1>2, <1>5, <1>11, DropBare
<1>19. Nested'
  <2>1. \A o \in Activities :
          ChainOf(subActivity', subActivity'[o]) \subseteq Chain(subActivity[o])
    BY <1>2, <1>5, DropChains
  <2> QED BY <1>11, <1>12, <2>1, NestedTrimmed DEF StackTyped
<1>20. Held'
  <2>1. \A i \in 1..Len(stack') : i \in 1..Len(stack) /\ stack'[i].o = stack[i].o
    BY <1>11 DEF Trimmed, StackTyped
  <2>2. alive' = alive \ G /\ navs' = navs
    BY <1>2, DropTyped
  <2>3. ChainOf(subActivity', current') = Chain(current) \ G
    BY <1>2, <1>15
  <2>4. ASSUME navs' = 0, NEW i \in 1..Len(stack')
        PROVE  stack'[i].o \in ChainOf(subActivity', current')
    BY <1>8, <2>1, <2>2, <2>3, <2>4 DEF Held
  <2>5. ASSUME navs' <= 1, NEW i \in 1..Len(stack')
        PROVE  stack'[i].o \in alive'
    BY <1>8, <2>1, <2>2, <2>5 DEF Held
  <2> QED BY <2>4, <2>5 DEF Held, Chain
<1>21. Runs'
  <2>1. CASE stack' = <<>> \/ stack'[Len(stack')].op \in {"pumped", "return"}
    BY <2>1 DEF Runs, On, Leaving
  <2>2. CASE /\ pending[Inner] # None
             /\ stack'[Len(stack')].op = "replace" /\ stack'[Len(stack')].o = Inner
    BY <1>2, <1>3, <1>9, <1>15, <1>16, <2>2 DEF Runs, On, Inner, Chain
  <2> QED BY <1>11, <2>1, <2>2
<1>22. Asked'
  BY <1>2, <1>15, DropTyped DEF Asked, Chain
<1>23. Between'
  <2>1. Len(stack) # 0 /\ pass # "idle"
    BY <1>1 DEF Between
  <2> QED BY <1>2, <1>3, <2>1 DEF Between
<1>24. ~On("free")'
  BY <1>11 DEF On
<1>25. ExitedOnce'
  <2>1. \A o \in Chain(deferred) : exits'[o] = 1
    BY <1>2, <1>9, DropTyped, ChainWithin DEF ExitedOnce, Chain
  <2>2. \A o \in Chain(current) \ G : exits'[o] = 0
    BY <1>1, <1>2, <1>5, DropTyped, ChainWithin DEF ExitedOnce, Chain, left
  <2> QED BY <1>2, <1>15, <1>24, <2>1, <2>2 DEF ExitedOnce, Chain
<1>26. PolicyHeld'
  BY <1>2, <1>3, <1>9, <1>15, <1>16 DEF PolicyHeld, Chain
<1>27. LeftFirst
  <2> SUFFICES ASSUME NEW o \in G, o \in entered
               PROVE  exits[o] = 1
    BY <1>2, DropTyped DEF LeftFirst
  <2>1. o \in left
    BY <1>4, <1>5 DEF Waiting, Bare
  <2> QED BY <1>1, <1>4, <2>1 DEF ExitedOnce, left
<1> QED BY <1>12, <1>13, <1>14, <1>17, <1>18, <1>19, <1>20, <1>21, <1>22, <1>23, <1>25, <1>26, <1>27

-----------------------------------------------------------------------------
(* Entering. *)

LEMMA NewIs ==
  ASSUME StackTyped, Linked, NEW o, New(o)
  PROVE  /\ o \in Activities /\ o \notin alive /\ o # None
         /\ subActivity[o] = None /\ pending[o] = None /\ Chain(o) = {o}
         /\ \A p \in Activities : subActivity[p] # o /\ pending[p] # o
         /\ \A i \in 1..Len(stack) : stack[i].o # o
<1>1. o \in Activities /\ o \notin alive /\ \A i \in 1..Len(stack) : stack[i].o # o
  BY DEF New, Unused, StackTyped
<1>2. o # None
  BY <1>1, NoneIsNone
<1>3. subActivity[o] = None /\ pending[o] = None
  BY <1>1 DEF Linked
<1>4. \A p \in Activities : subActivity[p] # o /\ pending[p] # o
  BY <1>1, <1>2 DEF Linked
<1>5. Chain(o) = {o}
  BY <1>1, <1>3, ChildChain, ChainNone DEF Chain
<1> QED BY <1>1, <1>2, <1>3, <1>4, <1>5

LEMMA PushedIs ==
  ASSUME StackTyped, NEW op, NEW o \in Activities, Pushed(stack, stack', op, o)
  PROVE  /\ stack' \in Seq(Frame) /\ stack' # <<>>
         /\ stack'[Len(stack')].op = op /\ Inner' = o
         /\ \A i \in 1..Len(stack') :
              (i \in 1..Len(stack) /\ stack'[i].o = stack[i].o) \/ stack'[i].o = o
<1>1. Len(stack) \in Nat /\ Len(stack') = Len(stack) + 1 /\ stack' \in Seq(Frame)
  BY DEF StackTyped, Pushed
<1>2. \A i \in 1..Len(stack') : i \in 1..Len(stack) \/ i = Len(stack')
  BY <1>1
<1> QED BY <1>1, <1>2 DEF Pushed, Inner

LEMMA EnterGlobalInv ==
  ASSUME StackInv, EnterGlobal
  PROVE  StackInv' /\ LeftFirst
<1> USE DEF StackInv
<1>1. /\ current = None /\ deferred' = deferred /\ pass' = pass /\ navs' = navs
      /\ UNCHANGED <<subActivity, pending, pendingExit, pumping>>
  BY DEF EnterGlobal, links
<1>2. PICK o \in Activities, r \in BOOLEAN :
        /\ New(o) /\ Made(o, r) /\ Entered(o) /\ current' = o
        /\ \/ stack # <<>> /\ stack' = Call(Become("return"), "enter", o)
           \/ stack = <<>> /\ stack' = Call(stack, "enter", o) /\ pass = "gesture"
  <2>1. CASE At("navigate") /\ \E o \in Activities, r \in {FALSE, Top.o \notin routers} :
               /\ New(o) /\ Made(o, r) /\ Entered(o) /\ current' = o
               /\ stack' = Call(Become("return"), "enter", o)
    BY <2>1 DEF At
  <2>2. CASE pass = "gesture" /\ stack = <<>> /\ \E o \in Activities :
               /\ New(o) /\ Made(o, FALSE) /\ Entered(o) /\ current' = o
               /\ stack' = Call(stack, "enter", o)
    BY <2>2
  <2> QED BY <2>1, <2>2 DEF EnterGlobal
<1>3. Pushed(stack, stack', "enter", o)
  BY <1>2, CallIs, CallFromIs DEF Ops
<1>4. /\ o \notin alive /\ o # None
      /\ subActivity[o] = None /\ pending[o] = None /\ Chain(o) = {o}
      /\ \A p \in Activities : subActivity[p] # o /\ pending[p] # o
      /\ \A i \in 1..Len(stack) : stack[i].o # o
  BY <1>2, NewIs
<1>5. /\ alive' = alive \cup {o} /\ entered' = entered \cup {o} /\ policy' = o
      /\ exits' = [exits EXCEPT ![o] = 0]
  BY <1>2 DEF Made, Entered
<1>6. /\ stack' \in Seq(Frame) /\ stack' # <<>>
      /\ stack'[Len(stack')].op = "enter" /\ Inner' = o
      /\ \A i \in 1..Len(stack') :
           (i \in 1..Len(stack) /\ stack'[i].o = stack[i].o) \/ stack'[i].o = o
  BY <1>3, PushedIs
<1>7. /\ \A x \in Activities : x # o => exits'[x] = exits[x]
      /\ exits'[o] = 0 /\ exits' \in [Activities -> Nat]
  BY <1>5 DEF StackTyped
<1>8. Chain(deferred) \subseteq alive
  BY AliveClosed DEF Rooted
<1>9. StackTyped'
  BY <1>1, <1>2, <1>5, <1>6, <1>7 DEF StackTyped, Object
<1>10. Linked'
  BY <1>1, <1>5 DEF Linked
<1>11. Rooted'
  <2>1. Root(subActivity, o) /\ Root(pending, o)
    BY <1>4 DEF Root, Object
  <2> QED BY <1>1, <1>2, <1>4, <1>5, <2>1 DEF Rooted
<1>12. Reached'
  <2>1. Owned(current) = {}
    BY <1>1, ChainNone DEF Owned, Waiting, Chain
  <2>2. alive' \subseteq Chain(o) \cup Owned(deferred)
    BY <1>4, <1>5, <2>1 DEF Reached
  <2> QED BY <1>1, <1>2, <2>2 DEF Reached, Owned, Waiting, Chain
<1>13. Bare'
  <2> SUFFICES ASSUME NEW p \in Activities, pending[p] # None
               PROVE  /\ pending[p] \notin entered' /\ exits'[pending[p]] = 0
                      /\ \A i \in 1..Len(stack') : stack'[i].o # pending[p]
    BY <1>1 DEF Bare
  <2>1. pending[p] \in Activities /\ pending[p] # o
    BY <1>4 DEF StackTyped, Forest, Object
  <2> QED BY <1>5, <1>6, <1>7, <2>1 DEF Bare
<1>14. Nested'
  <2>1. \A i, j \in 1..Len(stack) : i < j =>
          stack[i].o \notin ChainOf(subActivity', subActivity'[stack[j].o])
    BY <1>1 DEF Nested, Chain
  <2>2. ChainOf(subActivity', subActivity'[o]) = {}
    BY <1>1, <1>4, ChainNone
  <2> QED BY <1>3, <2>1, <2>2, NestedPushed
<1>15. Held'
  <2>1. navs' # 0
    BY <1>1 DEF Between, StackTyped
  <2> QED BY <1>1, <1>5, <1>6, <2>1 DEF Held
<1>16. Runs'
  BY <1>1, <1>2, <1>4, <1>6 DEF Runs, On, Chain
<1>17. Asked'
  BY <1>1, ChainNone DEF Asked, Chain
<1>18. Between'
  <2>1. pass # "idle"
    BY <1>1 DEF Between, On
  <2> QED BY <1>1, <1>2, <1>4, <2>1 DEF Between
<1>19. ExitedOnce'
  <2>1. \A x \in Chain(deferred) : exits'[x] = 1
    BY <1>4, <1>7, <1>8 DEF ExitedOnce, StackTyped
  <2> QED BY <1>1, <1>2, <1>4, <1>6, <1>7, <2>1 DEF ExitedOnce, On, Chain
<1>20. PolicyHeld'
  BY <1>1, <1>2, <1>4, <1>5 DEF PolicyHeld, Chain
<1>21. LeftFirst
  BY <1>5 DEF LeftFirst
<1> QED BY <1>9, <1>10, <1>11, <1>12, <1>13, <1>14, <1>15, <1>16, <1>17, <1>18, <1>19, <1>20, <1>21

(* A childless activity of the current tree, whose frame is the innermost,  *)
(* is given a child, and the child's onEnter is called.                     *)
LEMMA AdoptTree ==
  ASSUME StackInv, stack # <<>>, stack[Len(stack)].op \in {"run", "enter", "replace"},
         subActivity[Inner] = None,
         NEW n \in Activities, subActivity[n] = None, n \notin Chain(current),
         n \notin Chain(deferred),
         \A i \in 1..Len(stack) : stack[i].o # n,
         subActivity' = [subActivity EXCEPT ![Inner] = n],
         Pushed(stack, stack', "enter", n), alive \subseteq alive', n \in alive',
         current' = current, deferred' = deferred, navs' = navs, pass' = pass, policy' = n,
         \A o \in Activities : pendingExit'[o] => pendingExit[o],
         \A o \in Activities : exits'[o] = IF o = n THEN 0 ELSE exits[o]
  PROVE  /\ subActivity' \in Forest
         /\ \A o \in Activities : subActivity'[o] = IF o = Inner THEN n ELSE subActivity[o]
         /\ ChainOf(subActivity', current) = Chain(current) \cup {n}
         /\ ChainOf(subActivity', deferred) = Chain(deferred)
         /\ Nested' /\ Held' /\ Runs' /\ Asked' /\ Between' /\ ExitedOnce' /\ PolicyHeld'
<1> USE DEF StackInv
<1>1. /\ Inner \in Activities /\ Inner \in Chain(current)
      /\ ~On("free") /\ ~On("navigate") /\ Inner # n
  BY TopIs DEF Runs, On, Leaving, Inner
<1>2. /\ subActivity' \in Forest
      /\ \A o \in Activities : subActivity'[o] = IF o = Inner THEN n ELSE subActivity[o]
  BY <1>1 DEF StackTyped, Forest, Object
<1>3. \A o \in Object : ChainOf(subActivity', o) = Chain(o) \cup {x \in {n} : Inner \in Chain(o)}
  <2>1. PICK f \in Forest, g \in Forest, t \in Activities : f = subActivity /\ g = subActivity'
        /\ t = Inner
    BY <1>1, <1>2 DEF StackTyped
  <2>2. /\ f[t] = None /\ f[n] = None /\ n # t
        /\ \A x \in Activities : g[x] = IF x = t THEN n ELSE f[x]
    BY <1>1, <1>2, <2>1
  <2>3. \A o \in Object : ChainOf(g, o) = Grown(ChainOf(f, o), t, n)
    BY <2>2, ChainGrows
  <2> QED BY <2>1, <2>3 DEF Chain, Grown
<1>4. ChainOf(subActivity', current) = Chain(current) \cup {n}
  BY <1>1, <1>2, <1>3 DEF StackTyped
<1>5. ChainOf(subActivity', deferred) = Chain(deferred)
  <2>1. Inner \notin Chain(deferred) /\ deferred \in Object
    BY <1>1, Apart DEF StackTyped
  <2> QED BY <1>2, <1>3, <2>1
<1>6. /\ stack' \in Seq(Frame) /\ stack' # <<>>
      /\ stack'[Len(stack')].op = "enter" /\ Inner' = n
      /\ \A i \in 1..Len(stack') :
           (i \in 1..Len(stack) /\ stack'[i].o = stack[i].o) \/ stack'[i].o = n
  BY PushedIs
<1>7. subActivity'[n] = None
  BY <1>1, <1>3
<1>8. Nested'
  <2>1. ASSUME NEW i \in 1..Len(stack), NEW j \in 1..Len(stack), i < j
        PROVE  stack[i].o \notin ChainOf(subActivity', subActivity'[stack[j].o])
    <3>1. stack[j].o \in Activities /\ stack[i].o # n
      <4>1. stack[j] \in Frame
        BY DEF StackTyped
      <4> QED BY <4>1 DEF Frame
    <3>2. stack[i].o \notin Chain(subActivity[stack[j].o])
      BY <2>1 DEF Nested
    <3>3. CASE stack[j].o = Inner
      <4>1. ChainOf(subActivity', subActivity'[n]) = {}
        BY <1>7, ChainNone
      <4>2. ChainOf(subActivity', n) = {n} \cup ChainOf(subActivity', subActivity'[n])
        BY <1>2, <1>3, ChainUnfold
      <4>3. subActivity'[stack[j].o] = n
        BY <1>2, <3>1, <3>3
      <4> QED BY <3>1, <4>1, <4>2, <4>3
    <3>4. CASE stack[j].o # Inner
      <4>1. subActivity'[stack[j].o] = subActivity[stack[j].o] /\ subActivity[stack[j].o] \in Object
        BY <1>3, <3>1, <3>4 DEF StackTyped, Forest
      <4> QED BY <1>2, <1>3, <3>1, <3>2, <4>1
    <3> QED BY <3>3, <3>4
  <2>2. ChainOf(subActivity', subActivity'[n]) = {}
    BY <1>7, ChainNone
  <2> QED BY <2>1, <2>2, NestedPushed
<1>9. Held'
  <2>1. ASSUME navs' = 0, NEW i \in 1..Len(stack')
        PROVE  stack'[i].o \in ChainOf(subActivity', current')
    BY <1>4, <1>6, <2>1 DEF Held
  <2>2. ASSUME navs' <= 1, NEW i \in 1..Len(stack')
        PROVE  stack'[i].o \in alive'
    BY <1>6, <2>2 DEF Held
  <2> QED BY <2>1, <2>2 DEF Held, Chain
<1>10. Runs'
  BY <1>4, <1>6 DEF Runs, On, Chain
<1>11. Asked'
  BY <1>4 DEF Asked, Chain
<1>12. current # None
  BY <1>1, ChainNone DEF Chain
<1>13. Between'
  BY <1>12 DEF Between
<1>14. ExitedOnce'
  <2>1. ~On("free")'
    BY <1>6 DEF On
  <2>2. \A o \in Chain(deferred) : exits'[o] = 1
    BY ChainWithin DEF ExitedOnce, Chain
  <2>3. \A o \in Chain(current) \cup {n} : exits'[o] = 0
    BY <1>1, ChainWithin DEF ExitedOnce, Chain
  <2> QED BY <1>4, <1>5, <2>1, <2>2, <2>3 DEF ExitedOnce, Chain
<1>15. PolicyHeld'
  BY <1>4, <1>7 DEF PolicyHeld, Chain
<1> QED BY <1>2, <1>3, <1>4, <1>5, <1>8, <1>9, <1>10, <1>11, <1>13, <1>14, <1>15

LEMMA EnterChildInv ==
  ASSUME StackInv, EnterChild
  PROVE  StackInv' /\ LeftFirst
<1> USE DEF StackInv
<1>1. /\ stack # <<>> /\ stack[Len(stack)].op \in {"run", "enter"}
      /\ Top.o = Inner /\ Inner \in Activities /\ Inner \in alive
  BY AtIs DEF EnterChild
<1>2. PICK n \in Activities :
        /\ New(n) /\ Made(n, FALSE) /\ Entered(n)
        /\ subActivity' = [subActivity EXCEPT ![Inner] = n]
        /\ pendingExit' = [pendingExit EXCEPT ![Inner] = FALSE]
        /\ stack' = Call(Become("return"), "enter", n)
  BY <1>1 DEF EnterChild
<1>3. /\ subActivity[Inner] = None /\ current' = current /\ deferred' = deferred
      /\ pending' = pending /\ pumping' = pumping /\ pass' = pass /\ navs' = navs
  BY <1>1 DEF EnterChild, globals
<1>4. /\ n \notin alive /\ n # None
      /\ subActivity[n] = None /\ pending[n] = None
      /\ \A p \in Activities : subActivity[p] # n /\ pending[p] # n
      /\ \A i \in 1..Len(stack) : stack[i].o # n
  BY <1>2, NewIs
<1>5. /\ alive' = alive \cup {n} /\ entered' = entered \cup {n} /\ policy' = n
      /\ exits' \in [Activities -> Nat]
      /\ \A o \in Activities : exits'[o] = IF o = n THEN 0 ELSE exits[o]
  BY <1>2 DEF Made, Entered, StackTyped
<1>6. Pushed(stack, stack', "enter", n)
  BY <1>1, <1>2, CallFromIs DEF Ops
<1>7. /\ pendingExit' \in [Activities -> BOOLEAN]
      /\ \A o \in Activities : pendingExit'[o] => pendingExit[o]
  BY <1>1, <1>2 DEF StackTyped
<1>8. n \notin Chain(current) /\ n \notin Chain(deferred)
  BY <1>4, AliveClosed DEF Rooted
<1>9. /\ subActivity' \in Forest
      /\ \A o \in Activities : subActivity'[o] = IF o = Inner THEN n ELSE subActivity[o]
      /\ ChainOf(subActivity', current) = Chain(current) \cup {n}
      /\ ChainOf(subActivity', deferred) = Chain(deferred)
      /\ Nested' /\ Held' /\ Runs' /\ Asked' /\ Between' /\ ExitedOnce' /\ PolicyHeld'
  BY <1>1, <1>2, <1>3, <1>4, <1>5, <1>6, <1>7, <1>8, AdoptTree
<1>10. StackTyped'
  BY <1>2, <1>3, <1>5, <1>6, <1>7, <1>9 DEF StackTyped, Object, Pushed
<1>11. Linked'
  <2>1. \A o \in Activities : /\ {subActivity'[o], pending'[o]} \subseteq alive' \cup {None}
                              /\ o \notin alive' => subActivity'[o] = None /\ pending'[o] = None
    BY <1>1, <1>3, <1>5, <1>9 DEF Linked
  <2>2. Single(subActivity') /\ Single(pending')
    BY <1>3, <1>4, <1>9 DEF Linked, Single
  <2>3. \A o, p \in Activities : subActivity'[o] = pending'[p] => pending'[p] = None
    BY <1>3, <1>4, <1>9 DEF Linked
  <2> QED BY <2>1, <2>2, <2>3 DEF Linked
<1>12. Rooted'
  BY <1>3, <1>4, <1>5, <1>9 DEF Rooted, Root
<1>13. Reached'
  BY <1>3, <1>5, <1>9 DEF Reached, Owned, Waiting, Chain
<1>14. Bare'
  <2> SUFFICES ASSUME NEW p \in Activities, pending[p] # None
               PROVE  /\ subActivity'[pending[p]] = None /\ pending[pending[p]] = None
                      /\ pending[p] \notin entered' /\ exits'[pending[p]] = 0
                      /\ \A i \in 1..Len(stack') : stack'[i].o # pending[p]
    BY <1>3 DEF Bare
  <2>1. pending[p] \in Activities /\ pending[p] # n
    BY <1>4 DEF StackTyped, Forest, Object
  <2>2. pending[p] # Inner
    BY <1>1, TopIs DEF Bare, Inner
  <2>3. \A i \in 1..Len(stack') :
          (i \in 1..Len(stack) /\ stack'[i].o = stack[i].o) \/ stack'[i].o = n
    BY <1>6, PushedIs
  <2> QED BY <1>5, <1>9, <2>1, <2>2, <2>3 DEF Bare
<1>15. LeftFirst
  BY <1>5 DEF LeftFirst
<1> QED BY <1>9, <1>10, <1>11, <1>12, <1>13, <1>14, <1>15

LEMMA ReplaceInv ==
  ASSUME StackInv, Replace
  PROVE  StackInv' /\ LeftFirst
<1> DEFINE n == pending[Inner]
<1> USE DEF StackInv
<1>1. /\ On("replace") /\ stack # <<>> /\ stack[Len(stack)].op = "replace"
      /\ Top.o = Inner /\ Inner \in Activities /\ Inner \in alive
  BY AtIs DEF Replace
<1>2. /\ subActivity' = [subActivity EXCEPT ![Inner] = n]
      /\ pending' = [pending EXCEPT ![Inner] = None]
      /\ entered' = entered \cup {n} /\ policy' = n
      /\ stack' = Call(Become("return"), "enter", n)
      /\ UNCHANGED <<alive, exits, pendingExit, pumping, current, deferred, pass, navs>>
  BY <1>1 DEF Replace, Entered, objects, globals
<1>3. /\ subActivity[Inner] = None /\ n # None /\ n \in Activities
  BY <1>1 DEF Runs, StackTyped, Forest, Object
<1>4. /\ n \in alive /\ subActivity[n] = None /\ pending[n] = None /\ exits[n] = 0
      /\ \A i \in 1..Len(stack) : stack[i].o # n
  BY <1>1, <1>3 DEF Bare, Linked
<1>5. /\ n \notin Chain(current) /\ n \notin Chain(deferred)
  BY <1>1, <1>3, Spared
<1>6. /\ \A p \in Activities : subActivity[p] # n
      /\ \A p \in Activities : p # Inner => pending[p] # n
      /\ n # current /\ n # deferred
  BY <1>1, <1>3 DEF Linked, Single, Rooted, Root
<1>7. \A p \in Activities : pending'[p] = IF p = Inner THEN None ELSE pending[p]
  BY <1>1, <1>2 DEF StackTyped, Forest
<1>8. pending' \in Forest
  BY <1>1, <1>2 DEF StackTyped, Forest, Object
<1>9. Inner \in Chain(current)
  BY <1>1 DEF Runs, Leaving
<1>10. Chain(current) \subseteq Activities
  BY ChainWithin DEF Chain
<1> HIDE DEF n
<1>11. Pushed(stack, stack', "enter", n)
  BY <1>1, <1>2, <1>3, CallFromIs DEF Ops
<1>12. /\ subActivity' \in Forest
       /\ \A o \in Activities : subActivity'[o] = IF o = Inner THEN n ELSE subActivity[o]
       /\ ChainOf(subActivity', current) = Chain(current) \cup {n}
       /\ ChainOf(subActivity', deferred) = Chain(deferred)
       /\ Nested' /\ Held' /\ Runs' /\ Asked' /\ Between' /\ ExitedOnce' /\ PolicyHeld'
  <2>1. /\ \A o \in Activities : pendingExit'[o] => pendingExit[o]
        /\ \A o \in Activities : exits'[o] = IF o = n THEN 0 ELSE exits[o]
        /\ alive \subseteq alive' /\ n \in alive'
    BY <1>2, <1>4
  <2> QED BY <1>1, <1>2, <1>3, <1>4, <1>5, <1>11, <2>1, AdoptTree
<1>13. StackTyped'
  BY <1>2, <1>3, <1>4, <1>8, <1>11, <1>12 DEF StackTyped, Object, Pushed
<1>14. Linked'
  <2>1. \A o \in Activities : /\ {subActivity'[o], pending'[o]} \subseteq alive' \cup {None}
                              /\ o \notin alive' => subActivity'[o] = None /\ pending'[o] = None
    BY <1>1, <1>2, <1>4, <1>7, <1>12 DEF Linked
  <2>2. Single(subActivity') /\ Single(pending')
    BY <1>6, <1>7, <1>12 DEF Linked, Single
  <2>3. \A o, p \in Activities : subActivity'[o] = pending'[p] => pending'[p] = None
    BY <1>6, <1>7, <1>12 DEF Linked
  <2> QED BY <2>1, <2>2, <2>3 DEF Linked
<1>15. Rooted'
  <2>1. \A c \in {current, deferred} : Root(subActivity', c) /\ Root(pending', c)
    BY <1>3, <1>6, <1>7, <1>12 DEF Rooted, Root
  <2> QED BY <1>2, <2>1 DEF Rooted
<1>16. Reached'
  <2>1. \A o \in Activities : pending[o] # n => pending'[o] = pending[o] \/ pending[o] = None
    BY <1>7 DEF n
  <2>2. Owned(current) \subseteq ChainOf(subActivity', current) \cup
          ({pending'[x] : x \in ChainOf(subActivity', current)} \ {None})
    BY <1>10, <1>12, <2>1 DEF Owned, Waiting
  <2>3. Owned(deferred) \subseteq ChainOf(subActivity', deferred) \cup
          ({pending'[x] : x \in ChainOf(subActivity', deferred)} \ {None}) \cup {n}
    BY <1>12, <2>1, ChainWithin DEF Owned, Waiting, Chain
  <2> QED BY <1>2, <1>12, <2>2, <2>3 DEF Reached, Owned, Waiting, Chain
<1>17. Bare'
  <2> SUFFICES ASSUME NEW p \in Activities, pending'[p] # None
               PROVE  /\ subActivity'[pending'[p]] = None /\ pending'[pending'[p]] = None
                      /\ pending'[p] \notin entered' /\ exits'[pending'[p]] = 0
                      /\ \A i \in 1..Len(stack') : stack'[i].o # pending'[p]
    BY DEF Bare
  <2>1. /\ pending'[p] = pending[p] /\ pending[p] \in Activities /\ pending[p] # n
    BY <1>6, <1>7 DEF StackTyped, Forest, Object
  <2>2. pending[p] # Inner
    BY <1>1, <2>1, TopIs DEF Bare, Inner
  <2>3. \A i \in 1..Len(stack') :
          (i \in 1..Len(stack) /\ stack'[i].o = stack[i].o) \/ stack'[i].o = n
    BY <1>3, <1>11, PushedIs
  <2> QED BY <1>2, <1>7, <1>12, <2>1, <2>2, <2>3 DEF Bare
<1>18. LeftFirst
  BY <1>2 DEF LeftFirst
<1> QED BY <1>12, <1>13, <1>14, <1>15, <1>16, <1>17, <1>18

-----------------------------------------------------------------------------
(* What a child asks of its parent. *)

(* p's replacement, if it has one, is deleted and w takes its place: None,  *)
(* or an activity just made.                                                *)
LEMMA AskTree ==
  ASSUME StackInv, NEW p \in alive, NEW w \in Object,
         stack # <<>>, stack[Len(stack)].op = "run", subActivity[p] = Inner,
         w # None => /\ w \notin alive
                     /\ \A o \in Activities : subActivity[o] # w /\ pending[o] # w
                     /\ \A i \in 1..Len(stack) : stack[i].o # w,
         alive' = (alive \ Waiting({p})) \cup ({w} \ {None}),
         pending' = [pending EXCEPT ![p] = w], pendingExit' = [pendingExit EXCEPT ![p] = TRUE],
         exits' \in [Activities -> Nat],
         \A o \in Activities : exits'[o] = IF o = w THEN 0 ELSE exits[o],
         UNCHANGED <<entered, subActivity, pumping, current, deferred, policy, stack, pass, navs>>
  PROVE  StackInv' /\ LeftFirst
<1> USE DEF StackInv
<1>1. /\ p \in Activities /\ Inner \in Activities /\ Inner \in Chain(current)
      /\ ~On("free") /\ ~On("navigate") /\ ~On("close") /\ ~On("replace")
  BY TopIs DEF Runs, On, Leaving, StackTyped
<1>2. p \in Chain(current)
  BY <1>1, ParentInside
<1>3. Waiting({p}) = {pending[p]} \ {None}
  BY DEF Waiting
<1>4. \A o \in Activities : pending'[o] = IF o = p THEN w ELSE pending[o]
  BY <1>1 DEF StackTyped, Forest
<1>5. pending' \in Forest /\ pendingExit' \in [Activities -> BOOLEAN]
  BY <1>1 DEF StackTyped, Forest
<1>6. pending[p] # None => /\ pending[p] \in Activities
                           /\ pending[p] \notin entered /\ pending[p] # current
                           /\ pending[p] # deferred
                           /\ subActivity[pending[p]] = None /\ pending[pending[p]] = None
                           /\ \A o \in Activities : /\ subActivity[o] # pending[p]
                                                    /\ o # p => pending[o] # pending[p]
                           /\ \A i \in 1..Len(stack) : stack[i].o # pending[p]
  BY <1>1 DEF Bare, Linked, Rooted, Root, Single, StackTyped, Forest, Object
<1>7. w # None => /\ w \in Activities /\ subActivity[w] = None /\ pending[w] = None
                  /\ w # p /\ w # current /\ w # deferred /\ w \notin entered
  BY DEF Linked, Rooted, StackTyped, Object
<1>8. StackTyped'
  BY <1>3, <1>5, <1>6, <1>7 DEF StackTyped, Object
<1>9. Linked'
  <2>1. \A o \in Activities : subActivity[o] \in alive' \cup {None}
    BY <1>3, <1>6 DEF Linked
  <2>2. ASSUME NEW o \in Activities
        PROVE  pending'[o] \in alive' \cup {None}
    <3>1. CASE o = p
      BY <1>4, <3>1
    <3>2. CASE o # p
      <4>1. pending'[o] = pending[o] /\ pending[o] \in alive \cup {None}
        BY <1>4, <3>2 DEF Linked
      <4>2. pending[o] = None \/ pending[o] # pending[p]
        BY <1>6, <3>2
      <4>3. pending[o] # None => pending[o] \in alive \ Waiting({p})
        BY <1>3, <4>1, <4>2
      <4>4. pending[o] # None => pending[o] \in alive'
        BY <4>3
      <4> QED BY <4>1, <4>4
    <3> QED BY <3>1, <3>2
  <2>3. ASSUME NEW o \in Activities, o \notin alive'
        PROVE  subActivity[o] = None /\ pending'[o] = None
    <3>1. pending[p] # p
      BY <1>1, <1>2, Spared, NoneIsNone
    <3>2. o # p
      BY <1>3, <2>3, <3>1
    <3>3. o \notin alive \/ (pending[p] # None /\ o = pending[p])
      BY <1>3, <2>3
    <3> QED BY <1>4, <1>6, <3>2, <3>3 DEF Linked
  <2>4. Single(pending')
    BY <1>4 DEF Linked, Single
  <2>5. \A o, x \in Activities : subActivity[o] = pending'[x] => pending'[x] = None
    BY <1>4 DEF Linked
  <2> QED BY <2>1, <2>2, <2>3, <2>4, <2>5 DEF Linked
<1>10. Rooted'
  <2>1. Root(pending', current) /\ Root(pending', deferred)
    BY <1>4, <1>7 DEF Rooted, Root
  <2> QED BY <1>3, <1>6, <2>1 DEF Rooted
<1>11. Reached'
  <2>1. w # None => w \in {pending'[x] : x \in Chain(current)} \ {None}
    BY <1>1, <1>2, <1>4
  <2>2. \A o \in {current, deferred} : Owned(o) \ Waiting({p}) \subseteq
          Chain(o) \cup ({pending'[x] : x \in Chain(o)} \ {None})
    BY <1>3, <1>4, ChainWithin DEF Owned, Waiting, Chain
  <2> QED BY <2>1, <2>2 DEF Reached, Owned, Waiting, Chain
<1>12. Bare'
  <2> SUFFICES ASSUME NEW x \in Activities, pending'[x] # None
               PROVE  /\ subActivity[pending'[x]] = None /\ pending'[pending'[x]] = None
                      /\ pending'[x] \notin entered /\ exits'[pending'[x]] = 0
                      /\ \A i \in 1..Len(stack) : stack[i].o # pending'[x]
    BY DEF Bare
  <2>1. CASE x = p
    BY <1>1, <1>4, <1>7, <2>1
  <2>2. CASE x # p
    <3>1. pending'[x] = pending[x] /\ pending[x] \in Activities /\ pending[x] # w
      BY <1>4, <2>2 DEF StackTyped, Forest, Object
    <3>2. pending[x] # p
      BY <1>1, <1>2, <3>1, Spared
    <3> QED BY <1>4, <3>1, <3>2 DEF Bare
  <2> QED BY <2>1, <2>2
<1>13. Nested'
  BY DEF Nested, Chain
<1>14. Held'
  <2>1. \A i \in 1..Len(stack) : stack[i].o \in alive => stack[i].o \in alive'
    BY <1>3, <1>6
  <2> QED BY <2>1 DEF Held, Chain
<1>15. Runs'
  BY <1>1 DEF Runs, On, Inner, Chain
<1>16. Asked'
  <2>1. \A o \in Activities : pendingExit'[o] => o = p \/ pendingExit[o]
    BY DEF StackTyped
  <2> QED BY <1>2, <2>1 DEF Asked, Chain
<1>17. Between'
  BY DEF Between, On
<1>18. ExitedOnce'
  <2>1. \A o \in Chain(current) \cup Chain(deferred) : o \in Activities /\ o # w
    BY NoneIsNone, AliveClosed DEF Rooted, StackTyped, Object
  <2>2. \A o \in Chain(deferred) : exits'[o] = 1
    BY <2>1 DEF ExitedOnce
  <2>3. \A o \in Chain(current) : exits'[o] = 0
    BY <1>1, <2>1 DEF ExitedOnce
  <2> QED BY <1>1, <2>2, <2>3 DEF ExitedOnce, On, Chain
<1>19. PolicyHeld'
  BY <1>1 DEF PolicyHeld, On, Chain
<1>20. LeftFirst
  BY <1>3, <1>6 DEF LeftFirst
<1> QED BY <1>8, <1>9, <1>10, <1>11, <1>12, <1>13, <1>14, <1>15, <1>16, <1>17, <1>18, <1>19, <1>20

LEMMA AskCloseInv ==
  ASSUME StackInv, AskClose
  PROVE  StackInv' /\ LeftFirst
<1>1. StackTyped
  BY DEF StackInv
<1>2. /\ stack # <<>> /\ stack[Len(stack)].op = "run" /\ Top.o = Inner
  BY <1>1, AtIs DEF AskClose
<1>3. PICK p \in alive : /\ subActivity[p] = Inner
                         /\ pendingExit' = [pendingExit EXCEPT ![p] = TRUE]
                         /\ pending' = [pending EXCEPT ![p] = None]
                         /\ alive' = alive \ Waiting({p})
  BY <1>2 DEF AskClose, Parent
<1>4. UNCHANGED <<entered, exits, subActivity, pumping, current, deferred, policy,
                  stack, pass, navs>>
  BY DEF AskClose, calls, globals
<1>5. None \in Object /\ alive' = (alive \ Waiting({p})) \cup ({None} \ {None})
  BY <1>3 DEF Object
<1>6. exits' \in [Activities -> Nat]
      /\ \A o \in Activities : exits'[o] = IF o = None THEN 0 ELSE exits[o]
  BY <1>1, <1>4, NoneIsNone DEF StackTyped
<1> QED BY <1>2, <1>3, <1>4, <1>5, <1>6, AskTree

LEMMA AskReplaceInv ==
  ASSUME StackInv, AskReplace
  PROVE  StackInv' /\ LeftFirst
<1>1. StackTyped /\ Linked
  BY DEF StackInv
<1>2. /\ stack # <<>> /\ stack[Len(stack)].op = "run" /\ Top.o = Inner
  BY <1>1, AtIs DEF AskReplace
<1>3. PICK p \in alive, w \in Activities :
        /\ subActivity[p] = Inner /\ New(w)
        /\ alive' = (alive \ Waiting({p})) \cup {w} /\ exits' = [exits EXCEPT ![w] = 0]
        /\ pendingExit' = [pendingExit EXCEPT ![p] = TRUE]
        /\ pending' = [pending EXCEPT ![p] = w]
  BY <1>2 DEF AskReplace, Parent
<1>4. UNCHANGED <<entered, subActivity, pumping, current, deferred, policy, stack, pass, navs>>
  BY DEF AskReplace, globals
<1>5. /\ w \in Object /\ w # None /\ w \notin alive
      /\ \A o \in Activities : subActivity[o] # w /\ pending[o] # w
      /\ \A i \in 1..Len(stack) : stack[i].o # w
  BY <1>1, <1>3, NewIs DEF Object
<1>6. alive' = (alive \ Waiting({p})) \cup ({w} \ {None})
  BY <1>3, <1>5
<1>7. exits' \in [Activities -> Nat]
      /\ \A o \in Activities : exits'[o] = IF o = w THEN 0 ELSE exits[o]
  BY <1>1, <1>3 DEF StackTyped
<1> QED BY <1>2, <1>3, <1>4, <1>5, <1>6, <1>7, AskTree

-----------------------------------------------------------------------------
(* Calls and returns. *)

(* The objects and what points to them stay, and so does what is closed.    *)
LEMMA TreeKept ==
  ASSUME StackInv,
         UNCHANGED <<alive, entered, exits, subActivity, pending, current, deferred, policy>>,
         ~On("free"), ~On("free")',
         \A i \in 1..Len(stack') : \A p \in Activities :
           pending[p] # None => stack'[i].o # pending[p]
  PROVE  /\ Linked' /\ Rooted' /\ Reached' /\ Bare' /\ ExitedOnce' /\ PolicyHeld' /\ LeftFirst
<1> USE DEF StackInv
<1>1. Linked' /\ Rooted' /\ LeftFirst
  BY DEF Linked, Rooted, LeftFirst
<1>2. Reached'
  BY DEF Reached, Owned, Waiting, Chain
<1>3. Bare'
  BY DEF Bare
<1>4. ExitedOnce'
  BY DEF ExitedOnce, Chain
<1>5. PolicyHeld'
  BY DEF PolicyHeld, Chain
<1> QED BY <1>1, <1>2, <1>3, <1>4, <1>5

LEMMA BeginPassInv ==
  ASSUME StackInv, BeginPass
  PROVE  StackInv' /\ LeftFirst
<1> USE DEF StackInv
<1>1. /\ pass = "idle" /\ navs' = 0 /\ pass' = "loop" /\ stack' = Call(stack, "loop", current)
      /\ UNCHANGED <<alive, entered, exits, subActivity, pending, pendingExit, pumping,
                     current, deferred, policy>>
  BY DEF BeginPass, objects, calls, links, globals
<1>2. stack = <<>> /\ current # None
  BY <1>1 DEF Between, On
<1>3. current \in Activities /\ current \in alive /\ current \in Chain(current)
  BY <1>2, Spared DEF StackTyped, Object, Rooted
<1>4. Pushed(stack, stack', "loop", current)
  BY <1>1, <1>2, <1>3, CallIs DEF Ops
<1>5. /\ stack' \in Seq(Frame) /\ stack' # <<>>
      /\ stack'[Len(stack')].op = "loop" /\ Inner' = current
      /\ \A i \in 1..Len(stack') : stack'[i].o = current
  BY <1>2, <1>3, <1>4, PushedIs
<1>6. StackTyped'
  BY <1>1, <1>5 DEF StackTyped
<1>7. /\ Linked' /\ Rooted' /\ Reached' /\ Bare' /\ ExitedOnce' /\ PolicyHeld' /\ LeftFirst
  <2>1. \A p \in Activities : pending[p] # current \/ pending[p] = None
    BY DEF Rooted, Root
  <2> QED BY <1>1, <1>2, <1>5, <2>1, TreeKept DEF On
<1>8. Nested'
  <2>1. Len(stack) = 0
    BY <1>2
  <2> QED BY <1>3, <1>4, <2>1, NestedPushed
<1>9. Held' /\ Runs' /\ Asked' /\ Between'
  BY <1>1, <1>2, <1>3, <1>5 DEF Held, Runs, On, Asked, Between, Chain
<1> QED BY <1>6, <1>7, <1>8, <1>9

LEMMA GestureInv ==
  ASSUME StackInv, BeginGesture \/ EndGesture
  PROVE  StackInv' /\ LeftFirst
<1> USE DEF StackInv
<1>1. /\ pass' \in {"idle", "gesture"} /\ navs' \in {0, navs} /\ current # None
      /\ stack = <<>> /\ stack' = stack
      /\ UNCHANGED <<alive, entered, exits, subActivity, pending, pendingExit, pumping,
                     current, deferred, policy>>
  BY DEF BeginGesture, EndGesture, objects, calls, links, globals, Between, On
<1>2. StackTyped'
  BY <1>1 DEF StackTyped
<1>3. Len(stack') = 0
  BY <1>1
<1>4. /\ Linked' /\ Rooted' /\ Reached' /\ Bare' /\ ExitedOnce' /\ PolicyHeld' /\ LeftFirst
  BY <1>1, <1>3, TreeKept DEF On
<1>5. Nested' /\ Held' /\ Runs' /\ Asked' /\ Between'
  BY <1>1, <1>3 DEF Nested, Held, Runs, On, Asked, Between, Chain
<1> QED BY <1>2, <1>4, <1>5

LEMMA LoopInv ==
  ASSUME StackInv, Loop
  PROVE  StackInv' /\ LeftFirst
<1> USE DEF StackInv
<1>1. /\ On("loop") /\ stack # <<>> /\ stack[Len(stack)].op = "loop" /\ Top.o = Inner
      /\ Inner \in Activities /\ Inner \in alive
  BY AtIs DEF Loop
<1>2. /\ UNCHANGED <<alive, entered, exits, subActivity, pending, pendingExit,
                     current, deferred, policy, pass, navs>>
      /\ \/ stack' = Become("run") /\ pumping' = pumping
         \/ /\ pumping' = [pumping EXCEPT ![Inner] = TRUE] /\ subActivity[Inner] # None
            /\ stack' = Call(Become("pumped"), "loop", subActivity[Inner])
  BY <1>1 DEF Loop, objects, calls, globals
<1>3. Inner \in Chain(current) /\ current # None
  <2>1. Inner \in Chain(current)
    BY <1>1 DEF Runs, Leaving
  <2> QED BY <2>1, ChainNone DEF Chain
<1>4. CASE stack' = Become("run") /\ pumping' = pumping
  <2>1. /\ Trimmed(stack, stack') /\ Len(stack') = Len(stack) /\ stack' # <<>>
        /\ stack'[Len(stack')].op = "run" /\ Inner' = Inner
    BY <1>1, <1>4, BecomeIs DEF Ops, Inner
  <2>2. \A i \in 1..Len(stack') : i \in 1..Len(stack) /\ stack'[i].o = stack[i].o
    BY <2>1 DEF Trimmed
  <2>3. StackTyped'
    BY <1>2, <1>4, <2>1 DEF StackTyped, Trimmed
  <2>4. /\ Linked' /\ Rooted' /\ Reached' /\ Bare' /\ ExitedOnce' /\ PolicyHeld' /\ LeftFirst
    BY <1>1, <1>2, <2>1, <2>2, TreeKept DEF On, Bare
  <2>5. Nested'
    BY <1>2, <2>1, NestedTrimmed DEF StackTyped, Chain
  <2>6. Held'
    BY <1>2, <2>2 DEF Held, Chain
  <2>7. Runs' /\ Asked' /\ Between'
    BY <1>1, <1>2, <1>3, <2>1 DEF Runs, On, Asked, Between, Chain
  <2> QED BY <2>3, <2>4, <2>5, <2>6, <2>7
<1>5. CASE /\ pumping' = [pumping EXCEPT ![Inner] = TRUE] /\ subActivity[Inner] # None
           /\ stack' = Call(Become("pumped"), "loop", subActivity[Inner])
  <2> DEFINE c == subActivity[Inner]
  <2>1. /\ c \in Activities /\ c \in alive /\ c \in Chain(c) /\ c \in Chain(current)
        /\ Chain(c) = {c} \cup Chain(subActivity[c]) /\ Inner \notin Chain(c)
    <3>1. c \in Activities /\ c \in alive
      BY <1>1, <1>5 DEF Linked, StackTyped
    <3> QED BY <1>1, <1>3, <1>5, <3>1, ChildChain, ChainPart, NotBelowItself
  <2>2. \A p \in Activities : pending[p] # c \/ pending[p] = None
    BY <1>1 DEF Linked
  <2>3. \A i \in 1..Len(stack) : stack[i].o \notin Chain(subActivity[c])
    <3>1. Len(stack) \in Nat \ {0}
      BY <1>1, TopIs
    <3>2. ASSUME NEW i \in 1..Len(stack), i < Len(stack)
          PROVE  stack[i].o \notin Chain(c)
      BY <3>1, <3>2 DEF Nested, Inner
    <3> QED BY <2>1, <3>1, <3>2 DEF Inner
  <2> HIDE DEF c
  <2>4. Pushed(stack, stack', "loop", c)
    BY <1>1, <1>5, <2>1, CallFromIs DEF Ops, c
  <2>5. /\ stack' \in Seq(Frame) /\ stack' # <<>>
        /\ stack'[Len(stack')].op = "loop" /\ Inner' = c
        /\ \A i \in 1..Len(stack') :
             (i \in 1..Len(stack) /\ stack'[i].o = stack[i].o) \/ stack'[i].o = c
    BY <2>1, <2>4, PushedIs
  <2>6. StackTyped'
    BY <1>1, <1>2, <1>5, <2>5 DEF StackTyped
  <2>7. /\ Linked' /\ Rooted' /\ Reached' /\ Bare' /\ ExitedOnce' /\ PolicyHeld' /\ LeftFirst
    BY <1>1, <1>2, <2>2, <2>5, TreeKept DEF On, Bare
  <2>8. Nested'
    BY <1>2, <2>1, <2>3, <2>4, NestedPushed DEF Nested, Chain
  <2>9. Held'
    <3>1. ASSUME navs' = 0, NEW i \in 1..Len(stack')
          PROVE  stack'[i].o \in ChainOf(subActivity', current')
      BY <1>2, <2>1, <2>5, <3>1 DEF Held, Chain
    <3>2. ASSUME navs' <= 1, NEW i \in 1..Len(stack')
          PROVE  stack'[i].o \in alive'
      BY <1>2, <2>1, <2>5, <3>2 DEF Held
    <3> QED BY <3>1, <3>2 DEF Held, Chain
  <2>10. Runs' /\ Asked' /\ Between'
    BY <1>1, <1>2, <1>3, <2>1, <2>5 DEF Runs, On, Asked, Between, Chain
  <2> QED BY <2>6, <2>7, <2>8, <2>9, <2>10
<1> QED BY <1>2, <1>4, <1>5

LEMMA PumpedInv ==
  ASSUME StackInv, Pumped
  PROVE  StackInv' /\ LeftFirst
<1> USE DEF StackInv
<1>1. /\ On("pumped") /\ stack # <<>> /\ stack[Len(stack)].op = "pumped" /\ Top.o = Inner
      /\ Inner \in Activities /\ Inner \in alive
  BY AtIs DEF Pumped
<1>2. /\ UNCHANGED <<alive, entered, exits, subActivity, pending,
                     current, deferred, policy, pass, navs>>
      /\ pumping' = [pumping EXCEPT ![Inner] = FALSE]
      /\ pendingExit' = [pendingExit EXCEPT ![Inner] = FALSE]
      /\ \/ pendingExit[Inner] /\ subActivity[Inner] # None /\ stack' = Become("close")
         \/ stack' = Front(stack)
  BY <1>1 DEF Pumped, objects, calls, globals
<1>3. /\ Trimmed(stack, stack')
      /\ stack' # <<>> => \/ stack'[Len(stack')].op \in {"pumped", "return"}
                          \/ /\ pendingExit[Inner] /\ subActivity[Inner] # None
                             /\ stack'[Len(stack')].op = "close" /\ Inner' = Inner
  <2>1. CASE stack' = Front(stack)
    BY <1>1, <2>1, FrontIs, ReturnedTo
  <2>2. CASE pendingExit[Inner] /\ subActivity[Inner] # None /\ stack' = Become("close")
    BY <1>1, <2>2, BecomeIs DEF Ops, Inner
  <2> QED BY <1>2, <2>1, <2>2
<1>4. \A i \in 1..Len(stack') : i \in 1..Len(stack) /\ stack'[i].o = stack[i].o
  BY <1>3 DEF Trimmed, StackTyped
<1>5. pendingExit' \in [Activities -> BOOLEAN]
      /\ \A o \in Activities : pendingExit'[o] => pendingExit[o]
  BY <1>1, <1>2 DEF StackTyped
<1>6. StackTyped'
  BY <1>1, <1>2, <1>3, <1>5 DEF StackTyped, Trimmed
<1>7. /\ Linked' /\ Rooted' /\ Reached' /\ Bare' /\ ExitedOnce' /\ PolicyHeld' /\ LeftFirst
  BY <1>1, <1>2, <1>3, <1>4, TreeKept DEF On, Bare
<1>8. Nested'
  BY <1>2, <1>3, NestedTrimmed DEF StackTyped, Chain
<1>9. Held'
  BY <1>2, <1>4 DEF Held, Chain
<1>10. pendingExit[Inner] => Inner \in Chain(current)
  BY <1>1 DEF Asked
<1>11. Runs'
  BY <1>2, <1>3, <1>10 DEF Runs, On, Leaving, Chain
<1>12. Asked' /\ Between'
  BY <1>1, <1>2, <1>5 DEF Asked, Between, On, Chain
<1> QED BY <1>6, <1>7, <1>8, <1>9, <1>11, <1>12

LEMMA ReturnInv ==
  ASSUME StackInv, Return
  PROVE  StackInv' /\ LeftFirst
<1> USE DEF StackInv
<1>1. /\ stack # <<>> /\ stack' = Front(stack)
      /\ stack[Len(stack)].op \in {"run", "enter", "return"} \/ Inner \notin alive
      /\ UNCHANGED <<alive, entered, exits, subActivity, pending, pendingExit, pumping,
                     current, deferred, policy, pass, navs>>
  BY TopIs DEF Return, objects, calls, links, globals
<1>2. Trimmed(stack, stack') /\ (stack' # <<>> => stack'[Len(stack')].op \in {"pumped", "return"})
  BY <1>1, FrontIs, ReturnedTo
<1>3. \A i \in 1..Len(stack') : i \in 1..Len(stack) /\ stack'[i].o = stack[i].o
  BY <1>2 DEF Trimmed, StackTyped
<1>4. ~On("free") /\ ~On("navigate")
  <2>1. On("free") => Inner \in alive
    BY AliveClosed DEF Runs, On, Leaving, Rooted
  <2> QED BY <1>1, <2>1 DEF On, Runs
<1>5. StackTyped'
  BY <1>1, <1>2 DEF StackTyped, Trimmed
<1>6. /\ Linked' /\ Rooted' /\ Reached' /\ Bare' /\ ExitedOnce' /\ PolicyHeld' /\ LeftFirst
  BY <1>1, <1>2, <1>3, <1>4, TreeKept DEF On, Bare
<1>7. Nested'
  BY <1>1, <1>2, NestedTrimmed DEF StackTyped, Chain
<1>8. Held'
  BY <1>1, <1>3 DEF Held, Chain
<1>9. Runs'
  BY <1>2 DEF Runs, On, Leaving
<1>10. Asked' /\ Between'
  BY <1>1, <1>4 DEF Asked, Between, Chain
<1> QED BY <1>5, <1>6, <1>7, <1>8, <1>9, <1>10

-----------------------------------------------------------------------------
(* The theorems. *)

LEMMA StackInitInv ==
  ASSUME StackInit
  PROVE  StackInv
<1>1. 1 \in Activities /\ 1 \in Nat /\ 1 # None
  BY MaxActivityAssumption DEF Activities, None
<1>2. /\ alive = {1} /\ entered = {1} /\ stack = <<>> /\ pass = "idle" /\ navs = 0
      /\ current = 1 /\ deferred = None /\ policy = 1
      /\ subActivity = [o \in Activities |-> None] /\ pending = [o \in Activities |-> None]
      /\ exits = [o \in Activities |-> 0]
      /\ pendingExit = [o \in Activities |-> FALSE] /\ pumping = [o \in Activities |-> FALSE]
  BY DEF StackInit
<1>3. StackTyped
  <2>1. stack \in Seq(Frame)
    BY <1>2
  <2> QED BY <1>1, <1>2, <2>1 DEF StackTyped, Forest, Object, None
<1>4. \A o \in Activities : /\ subActivity[o] = None /\ pending[o] = None
                            /\ ~pendingExit[o] /\ exits[o] = 0
  BY <1>2
<1>5. Chain(current) = {1} /\ Chain(deferred) = {} /\ Chain(None) = {}
  BY <1>1, <1>2, <1>3, <1>4, ChildChain, ChainNone DEF Chain
<1>6. Len(stack) = 0
  BY <1>2
<1>7. Linked /\ Rooted /\ Bare
  BY <1>1, <1>2, <1>4 DEF Linked, Rooted, Root, Single, Bare, Object
<1>8. Reached /\ Held /\ Nested /\ Runs
  BY <1>2, <1>5, <1>6 DEF Reached, Owned, Held, Nested, Runs, On
<1>9. Asked /\ Between /\ ExitedOnce /\ PolicyHeld
  BY <1>1, <1>2, <1>4, <1>5 DEF Asked, Between, On, ExitedOnce, PolicyHeld
<1> QED BY <1>3, <1>7, <1>8, <1>9 DEF StackInv

LEMMA StackStep ==
  ASSUME StackInv, [StackNext]_stackVars
  PROVE  StackInv' /\ LeftFirst
<1>1. CASE UNCHANGED stackVars
  <2>1. UNCHANGED <<alive, entered, exits, subActivity, pending, pendingExit, pumping,
                    current, deferred, policy, stack, pass, navs>>
    BY <1>1 DEF stackVars, objects, calls, links, globals
  <2>2. StackTyped' /\ Linked' /\ Rooted' /\ Bare' /\ LeftFirst
    BY <2>1 DEF StackInv, StackTyped, Linked, Rooted, Bare, LeftFirst
  <2>3. Reached' /\ Nested' /\ Held' /\ Runs'
    BY <2>1 DEF StackInv, Reached, Owned, Waiting, Chain, Nested, Held, Runs, On, Inner
  <2>4. Asked' /\ Between' /\ ExitedOnce' /\ PolicyHeld'
    BY <2>1 DEF StackInv, Asked, Between, On, Inner, ExitedOnce, PolicyHeld, Chain
  <2> QED BY <2>2, <2>3, <2>4 DEF StackInv
<1>2. CASE StackNext
  BY <1>2, BeginPassInv, GestureInv, EndPassInv, NavigateInv, NavigateByGestureInv,
     EnterGlobalInv, LoopInv, AskCloseInv, AskReplaceInv, EnterChildInv, PumpedInv, CloseChildInv,
     FreeChildInv, ReplaceInv, ReturnInv DEF StackNext
<1> QED BY <1>1, <1>2

THEOREM StackHolds == StackSpec => []StackInv
<1>1. StackInit => StackInv
  BY StackInitInv
<1>2. StackInv /\ [StackNext]_stackVars => StackInv'
  BY StackStep
<1> QED BY <1>1, <1>2, PTL DEF StackSpec

(* In a pass with one navigation at most no object is deleted under its own *)
(* frame, however many activities there are and however deep they nest.     *)
THEOREM FramesSafe == StackSpec => []StackAliveOnce
<1>1. StackInv => StackAliveOnce
  BY DEF StackInv, StackTyped, Held, StackAliveOnce, StackAlive
<1> QED BY <1>1, StackHolds, PTL

(* Between two passes the policies are those of the activity on the screen: *)
(* the one childless activity of the current tree.                          *)
THEOREM PolicySafe == StackSpec => []PolicyOfVisible
<1>1. StackInv => PolicyOfVisible
  <2> SUFFICES ASSUME StackInv, pass = "idle"
               PROVE  current # None /\ policy = Visible(current)
    BY DEF PolicyOfVisible
  <2>1. current # None /\ ~On("free")
    BY DEF StackInv, Between, On
  <2>2. policy \in Chain(current) /\ subActivity[policy] = None
    BY <2>1 DEF StackInv, PolicyHeld
  <2>3. ASSUME NEW x \in Chain(current), subActivity[x] = None
        PROVE  x = policy
    BY <2>2, <2>3, OneLeaf DEF StackInv, StackTyped, Chain
  <2> QED BY <2>1, <2>2, <2>3 DEF Visible
<1> QED BY <1>1, StackHolds, PTL

(* No link dangles, and between two passes nothing is out of reach.         *)
THEOREM ReachSafe == StackSpec => []NoLeak
<1>1. StackInv => NoLeak
  <2> SUFFICES ASSUME StackInv
               PROVE  NoLeak
    OBVIOUS
  <2>1. Owned(current) \subseteq alive /\ Owned(deferred) \subseteq alive
    BY OwnedAlive DEF StackInv, Rooted
  <2> QED BY <2>1 DEF StackInv, StackTyped, Rooted, Linked, Reached, NoLeak
<1> QED BY <1>1, StackHolds, PTL

(* What is freed was left by onExit once, if it was ever entered.           *)
THEOREM FreeSafe == StackSpec => FreedOnlyExited
<1>1. StackInv /\ [StackNext]_stackVars => [LeftFirst]_stackVars
  BY StackStep
<1>2. [LeftFirst]_stackVars <=> [\A o \in alive \ alive' : o \in entered => exits[o] = 1]_stackVars
  BY DEF LeftFirst
<1> QED BY <1>1, <1>2, StackHolds, PTL DEF StackSpec, FreedOnlyExited
=============================================================================
