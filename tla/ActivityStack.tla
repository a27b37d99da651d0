---------------------------- MODULE ActivityStack ----------------------------
(* The activities of the firmware: the global current activity of main.cpp, *)
(* which navigation replaces from inside callbacks of the activity being    *)
(* left, and the child each activity may own (ActivityWithSubactivity),     *)
(* which is closed or replaced from inside its own frame.  All of it runs   *)
(* on the loop task; what makes it hard is the call stack, so the stack is  *)
(* part of the state.                                                       *)
EXTENDS Naturals, Sequences, SequencesExt

CONSTANT MaxActivity   \* bound on the activities alive at a time

ASSUME MaxActivityAssumption == MaxActivity \in Nat \ {0}

Activities == 1..MaxActivity
None == 0

VARIABLES
  alive, routers,      \* the objects, and which of them are a ReaderActivity
  entered, exits,      \* whether onEnter was called, how often onExit was
  subActivity, pending,   \* subActivity, pendingSubActivity_
  pendingExit,         \* pendingExitSub_
  pumping,             \* pumpingSubActivity_
  current, deferred,   \* currentActivity, deferredDeleteActivity
  policy,              \* the activity whose touch and text policies hold
  stack,               \* the call stack, innermost last
  pass,                \* what the loop task does in this pass
  navs                 \* navigations in this pass, counted up to 2

objects == <<alive, routers>>
calls == <<entered, exits>>
links == <<subActivity, pending, pendingExit, pumping>>
globals == <<current, deferred>>
stackVars == <<objects, calls, links, globals, policy, stack, pass, navs>>

(* A frame is an activity and where in its code it is: in loop() before it  *)
(* has looked at its child ("loop"), after its child's frame ("pumped"), in *)
(* its own code ("run"); in onEnter ("enter"); between exitActivity and     *)
(* enterNewActivity ("navigate"); closing its child ("close"), freeing it   *)
(* ("free"), about to enter the pending one ("replace"); "return".          *)

(* Home, entered at the end of setup(). *)
StackInit == /\ alive = {1} /\ routers = {} /\ entered = {1}
             /\ exits = [o \in Activities |-> 0]
             /\ subActivity = [o \in Activities |-> None] /\ pending = subActivity
             /\ pendingExit = [o \in Activities |-> FALSE] /\ pumping = pendingExit
             /\ current = 1 /\ deferred = None /\ policy = 1
             /\ stack = <<>> /\ pass = "idle" /\ navs = 0

-----------------------------------------------------------------------------
(* An activity and the children below it: the least set that has it and     *)
(* the child of each of its members.  There is nothing below None.          *)
Closed(f, X) == \A x \in X : f[x] # None => f[x] \in X
ChainOf(f, o) ==
  {x \in Activities : \A X \in SUBSET Activities :
                        Closed(f, X) /\ (o # None => o \in X) => x \in X}
Chain(o) == ChainOf(subActivity, o)

Visible(o) == CHOOSE x \in Chain(o) : subActivity[x] = None

Waiting(X) == {pending[x] : x \in X} \ {None}

(* What an activity's destructor frees. *)
Owned(o) == Chain(o) \cup Waiting(Chain(o))

Top == Last(stack)
At(op) == stack # <<>> /\ Top.op = op /\ Top.o \in alive
Become(op) == ReplaceAt(stack, Len(stack), [Top EXCEPT !.op = op])
Call(s, op, o) == Append(s, [op |-> op, o |-> o])

(* A new object takes an address no frame still refers to. *)
Unused == Activities \ (alive \cup {stack[i].o : i \in DOMAIN stack})

New(o) == o \in Unused /\ \A u \in Unused : o <= u

(* o is constructed, a ReaderActivity or not; nothing of it runs yet. *)
Made(o, isRouter) ==
  /\ alive' = alive \cup {o} /\ routers' = routers \cup {x \in {o} : isRouter}
  /\ exits' = [exits EXCEPT ![o] = 0]

Without(f, X) == [o \in Activities |-> IF f[o] \in X \/ o \in X THEN None ELSE f[o]]

(* onExit of the chain left, which forgets closes and replacements asked    *)
(* for, with the replacements and the objects gone deleted.                 *)
Drop(left, gone) ==
  /\ alive' = alive \ gone /\ routers' = routers \ gone /\ entered' = entered \ gone
  /\ exits' = [o \in Activities |->
                 IF o \in gone THEN 0 ELSE IF o \in left THEN exits[o] + 1 ELSE exits[o]]
  /\ subActivity' = Without(subActivity, gone) /\ pending' = Without(pending, gone)
  /\ pendingExit' = [o \in Activities |-> pendingExit[o] /\ o \notin left \cup gone]
  /\ pumping' = [o \in Activities |-> pumping[o] /\ o \notin left \cup gone]

(* Activity::onEnter of o. *)
Entered(o) == entered' = entered \cup {o} /\ policy' = o

-----------------------------------------------------------------------------
(* The loop task. *)

(* A pass begins with current->loop(), unless a Home gesture or the long    *)
(* press, seen before it, navigates; that pass ends early.                  *)
BeginPass == /\ pass = "idle" /\ navs' = 0
             /\ pass' = "loop" /\ stack' = Call(stack, "loop", current)
             /\ UNCHANGED <<objects, calls, links, globals, policy>>

BeginGesture == /\ pass = "idle" /\ Unused # {} /\ navs' = 0
                /\ pass' = "gesture"
                /\ UNCHANGED <<objects, calls, links, globals, policy, stack>>

(* After the loop the activity that was left is deleted: no call of it is   *)
(* under way any more.                                                      *)
EndPass == /\ pass = "loop" /\ stack = <<>> /\ pass' = "idle"
           /\ Drop({}, Owned(deferred)) /\ deferred' = None
           /\ UNCHANGED <<current, policy, stack, navs>>

EndGesture == /\ pass = "gesture" /\ stack = <<>> /\ navs > 0 /\ current # None /\ pass' = "idle"
              /\ UNCHANGED <<objects, calls, links, globals, policy, stack, navs>>

(* Mutant: the activity left before is forgotten, not deleted. *)
ExitForgets == /\ Drop(Chain(current), Waiting(Chain(current)))
               /\ deferred' = current /\ current' = None /\ policy' = None

(* Mutant: onExit is not passed on to the children. *)
ExitShallow == /\ Drop({current}, Waiting(Chain(current)) \cup Owned(deferred))
               /\ deferred' = current /\ current' = None /\ policy' = None

(* The global exitActivity: onExit of the current activity, which passes it *)
(* on to the children; the activity left before this one is deleted, and    *)
(* this one is deferred.                                                    *)
ExitGlobal == /\ Drop(Chain(current), Waiting(Chain(current)) \cup Owned(deferred))
              /\ deferred' = current /\ current' = None /\ policy' = None

(* Navigation by a callback of the running frame, or by onEnter of a        *)
(* ReaderActivity that has no book to show; the caller then only returns.   *)
Navigate == /\ At("run") \/ (At("enter") /\ Top.o \in routers)
            /\ current # None /\ Unused # {}
            /\ ExitGlobal
            /\ stack' = Become("navigate") /\ navs' = IF navs < 2 THEN navs + 1 ELSE 2
            /\ UNCHANGED pass

NavigateByGesture == /\ pass = "gesture" /\ stack = <<>> /\ navs = 0
                     /\ ExitGlobal
                     /\ navs' = 1
                     /\ UNCHANGED <<stack, pass>>

(* The global enterNewActivity. *)
EnterGlobal == /\ current = None
               /\ \/ At("navigate") /\ \E o \in Activities, r \in {FALSE, Top.o \notin routers} :
                       /\ New(o) /\ Made(o, r) /\ Entered(o) /\ current' = o
                       /\ stack' = Call(Become("return"), "enter", o)
                  \/ pass = "gesture" /\ stack = <<>> /\ \E o \in Activities :
                       /\ New(o) /\ Made(o, FALSE) /\ Entered(o) /\ current' = o
                       /\ stack' = Call(stack, "enter", o)
               /\ UNCHANGED <<links, deferred, pass, navs>>

-----------------------------------------------------------------------------
(* One activity and its child. *)

(* loop: the child's frame if there is a child, else code of its own. *)
Loop == /\ At("loop")
        /\ IF subActivity[Top.o] = None
           THEN stack' = Become("run") /\ UNCHANGED pumping
           ELSE /\ pumping' = [pumping EXCEPT ![Top.o] = TRUE]
                /\ stack' = Call(Become("pumped"), "loop", subActivity[Top.o])
        /\ UNCHANGED <<objects, calls, subActivity, pending, pendingExit, globals, policy,
                       pass, navs>>

Parent(o) == {p \in alive : subActivity[p] = o /\ pumping[p]}

(* Mutant: the child is closed and freed at once, inside its own frame. *)
AskInline == /\ At("run")
             /\ \E p \in Parent(Top.o) :
                  /\ Drop({}, Owned(Top.o)) /\ policy' = p
             /\ UNCHANGED <<globals, stack, pass, navs>>

(* A callback of the child asks its parent to close it (exitActivity or     *)
(* requestExitSubActivity while the child is pumped) ...                    *)
AskClose == /\ At("run")
            /\ \E p \in Parent(Top.o) :
                 /\ pendingExit' = [pendingExit EXCEPT ![p] = TRUE]
                 /\ pending' = [pending EXCEPT ![p] = None]
                 /\ alive' = alive \ Waiting({p}) /\ routers' = routers \ Waiting({p})
            /\ UNCHANGED <<calls, subActivity, pumping, globals, policy, stack, pass, navs>>

(* ... or to replace it (enterNewActivity while the child is pumped), in     *)
(* place of a child asked for before.                                       *)
AskReplace == /\ At("run")
              /\ \E p \in Parent(Top.o), o \in Activities :
                   /\ New(o) /\ alive' = (alive \ Waiting({p})) \cup {o}
                   /\ routers' = routers \ Waiting({p}) /\ exits' = [exits EXCEPT ![o] = 0]
                   /\ pendingExit' = [pendingExit EXCEPT ![p] = TRUE]
                   /\ pending' = [pending EXCEPT ![p] = o]
              /\ UNCHANGED <<entered, subActivity, pumping, globals, policy, stack, pass, navs>>

(* enterNewActivity on itself, from its own code or its onEnter. *)
EnterChild == /\ At("run") \/ At("enter")
              /\ subActivity[Top.o] = None /\ ~pumping[Top.o]
              /\ \E o \in Activities :
                   /\ New(o) /\ Made(o, FALSE) /\ Entered(o)
                   /\ subActivity' = [subActivity EXCEPT ![Top.o] = o]
                   /\ pendingExit' = [pendingExit EXCEPT ![Top.o] = FALSE]
                   /\ stack' = Call(Become("return"), "enter", o)
              /\ UNCHANGED <<pending, pumping, globals, pass, navs>>

(* pumpSubActivityFrame after the child's frame: nothing was asked, or the  *)
(* child is closed, ...                                                     *)
Pumped == /\ At("pumped")
          /\ LET o == Top.o
             IN /\ stack' = IF pendingExit[o] /\ subActivity[o] # None
                             THEN Become("close") ELSE Front(stack)
                /\ pumping' = [pumping EXCEPT ![o] = FALSE]
                /\ pendingExit' = [pendingExit EXCEPT ![o] = FALSE]
          /\ UNCHANGED <<objects, calls, subActivity, pending, globals, policy, pass, navs>>

CloseChild == /\ At("close")
              /\ LET left == Chain(subActivity[Top.o]) IN Drop(left, Waiting(left))
              /\ policy' = None /\ stack' = Become("free")
              /\ UNCHANGED <<globals, pass, navs>>

(* Mutant: the parent does not take its policies back. *)
FreeChildSilently == /\ At("free")
                     /\ Drop({}, Owned(subActivity[Top.o]))
                     /\ stack' = IF pending[Top.o] = None THEN Front(stack) ELSE Become("replace")
                     /\ UNCHANGED <<globals, policy, pass, navs>>

(* ... freed, and the parent's policies hold again. *)
FreeChild == /\ At("free")
             /\ Drop({}, Owned(subActivity[Top.o])) /\ policy' = Top.o
             /\ stack' = IF pending[Top.o] = None THEN Front(stack) ELSE Become("replace")
             /\ UNCHANGED <<globals, pass, navs>>

(* The pending child takes its place. *)
Replace == /\ At("replace")
           /\ LET o == Top.o
              IN /\ subActivity' = [subActivity EXCEPT ![o] = pending[o]]
                 /\ pending' = [pending EXCEPT ![o] = None]
                 /\ Entered(pending[o])
                 /\ stack' = Call(Become("return"), "enter", pending[o])
           /\ UNCHANGED <<objects, exits, pendingExit, pumping, globals, pass, navs>>

(* Frames return: those with nothing left to do, and those of an object     *)
(* freed beneath them, which must not touch it.                             *)
Return == /\ stack # <<>>
          /\ Top.op \in {"run", "enter", "return"} \/ Top.o \notin alive
          /\ stack' = Front(stack)
          /\ UNCHANGED <<objects, calls, links, globals, policy, pass, navs>>

StackNext == \/ BeginPass \/ BeginGesture \/ EndPass \/ EndGesture
             \/ Navigate \/ NavigateByGesture \/ EnterGlobal
             \/ Loop \/ AskClose \/ AskReplace \/ EnterChild
             \/ Pumped \/ CloseChild \/ FreeChild \/ Replace \/ Return

StackSpec == StackInit /\ [][StackNext]_stackVars

-----------------------------------------------------------------------------
(* Properties. *)

(* "it's no longer in any call stack": what is deleted has no call of its   *)
(* own under way.                                                           *)
StackAlive == \A i \in DOMAIN stack : stack[i].o \in alive

(* The same for the passes in which at most one navigation happens: a child *)
(* may ask to be closed or replaced and a callback may leave the whole      *)
(* stack of activities, in any order, and no frame loses its object.        *)
StackAliveOnce == navs <= 1 => StackAlive

(* An activity that was entered is left by onExit (which stops its display  *)
(* task) before it is deleted.                                              *)
FreedOnlyExited == [][\A o \in alive \ alive' : o \in entered => exits[o] = 1]_stackVars

(* Between two passes the activity on the screen is the one whose policies  *)
(* hold: a closed child's or a left parent's do not linger.                 *)
PolicyOfVisible == pass = "idle" => current # None /\ policy = Visible(current)

(* What is pointed at is alive, and between two passes every object alive   *)
(* can still be reached, so it will be deleted: nothing dangles or leaks.   *)
NoLeak == /\ {current, deferred} \subseteq alive \cup {None}
          /\ \A o \in alive : {subActivity[o], pending[o]} \subseteq alive \cup {None}
          /\ pass = "idle" => alive = Owned(current) \cup Owned(deferred)
=============================================================================
