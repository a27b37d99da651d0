----------------------------- MODULE AppRuntime -----------------------------
(* AppRuntimeActivity: a Lua app between two tasks.  The owner task alone   *)
(* enters the Lua state; it takes events from a bounded queue and enters    *)
(* the native reader or chapter list as child activity.  The UI task pumps  *)
(* that child, closes it after its frame, posts input, and on leaving the   *)
(* app tears everything down and joins the owner.  Both tasks read and      *)
(* write the child pointer with no lock.                                    *)
EXTENDS PluginReaderSession, Sequences

CONSTANTS QueueLen,  \* kEventQueueLen
          NoChild    \* the null child pointer

ASSUME QueueAssumption == QueueLen \in Nat \ {0}

VARIABLES ui, own,       \* the next step of the UI task and of the owner task
          events,        \* eventQueue_
          started, stop, done,      \* ownerTaskStarted_, life_.stopRequested, life_.ownerDone
          cancelled,     \* the host's cancel flag
          ready, failed,
          sub,           \* subActivity
          kind,          \* pluginChildKind_
          closePending,  \* childClosePending_
          req,           \* the request the owner is launching
          scene,         \* a ui.list scene of the host is active
          job,           \* generation of the loader's job, 0 without one
          panel          \* who painted the panel last

life == <<started, stop, done, cancelled>>
flags == <<ready, failed>>
child == <<sub, kind, closePending>>
lua == <<scene, job>>
vars == <<session, ui, own, events, life, flags, child, req, lua, panel>>

Kinds == {"Reader", "Toc"}

(* A child: the request it answers, whether onEnter has returned or onExit  *)
(* has run, and whether it asked to be closed (pluginCloseRequested_).      *)
Child == [kind : Kinds, gen : Gens, state : {"new", "open", "closed"}, asked : BOOLEAN]

ASSUME NoChildAssumption == NoChild \notin Child

UiSteps == {"loop", "child", "pumped", "close", "reset", "post",
            "exit", "exitReset", "exitBase", "stop", "send", "resend", "join", "gone"}
OwnSteps == {"boot", "init", "first", "recv", "pump", "scene", "sceneInput", "answers", "onReader", "tocAnswer",
             "onToc", "input", "draw", "launch", "launchToc", "load", "post", "enter", "entering",
             "show", "stopping", "epilogue", "gone"}

TypeOK == /\ SessionOK
          /\ ui \in UiSteps /\ own \in OwnSteps
          /\ events \in Seq({"Draw", "Input", "Stop"}) /\ Len(events) <= QueueLen
          /\ {started, stop, done, cancelled, ready, failed, closePending, scene} \subseteq BOOLEAN
          /\ sub \in Child \cup {NoChild}
          /\ kind \in Kinds \cup {"None"}
          /\ req \in [kind : Kinds, gen : Gens, whole : BOOLEAN]
          /\ job \in Gens
          /\ panel \in {"lua", "native"}

(* onEnter: the owner task runs, or it could not be made and is done.       *)
Init == /\ SessionInit
        /\ ui = "loop" /\ events = <<>>
        /\ started \in BOOLEAN /\ done = ~started /\ failed = ~started
        /\ own = IF started THEN "boot" ELSE "gone"
        /\ stop = FALSE /\ cancelled = FALSE /\ ready = FALSE
        /\ sub = NoChild /\ kind = "None" /\ closePending = FALSE
        /\ req = [kind |-> "Reader", gen |-> 0, whole |-> TRUE]
        /\ scene = FALSE /\ job = 0 /\ panel = "lua"

-----------------------------------------------------------------------------
(* The queue.  A full queue loses its oldest event to a new one.            *)

Send(e) == events' = IF Len(events) < QueueLen THEN Append(events, e)
                     ELSE Append(Tail(events), e)

(* postEvent *)
PostEvent(e) == IF stop \/ done THEN UNCHANGED events ELSE Send(e)

-----------------------------------------------------------------------------
(* The owner task. *)

(* What one call into the script may do: ask for a reader or a chapter list,*)
(* begin a progressive load, pump it (an early open, then the final one),   *)
(* open or close a list scene.                                              *)
ScriptRuns ==
  \/ UNCHANGED <<session, lua>>
  \/ BumpGeneration /\ (QueueOpen(gen + 1, TRUE) \/ QueueToc(gen + 1)) /\ UNCHANGED lua
  \/ BumpGeneration /\ job' = gen + 1 /\ UNCHANGED <<slots, launching, answers, scene>>
  \/ job # 0 /\ UNCHANGED <<gen, scene>>
     /\ \E complete \in BOOLEAN : QueueOpen(job, complete) /\ job' = IF complete THEN 0 ELSE job
  \/ scene' = ~scene /\ UNCHANGED <<session, job>>

(* A call into the script at step pc: it goes on at next, or fails and is   *)
(* recorded as failure and painted unless it failed because of the cancel.  *)
LuaCall(pc, next, whenCancelled) ==
  /\ own = pc
  /\ ScriptRuns
  /\ \/ own' = next /\ UNCHANGED <<flags, panel>>
     \/ cancelled /\ own' = whenCancelled /\ UNCHANGED <<flags, panel>>
     \/ ~cancelled /\ own' = "recv" /\ failed' = TRUE /\ panel' = "lua" /\ UNCHANGED ready
  /\ UNCHANGED <<ui, events, life, child, req>>

(* The startup page; host_.start clears the cancel flag on its way, but is  *)
(* not called once the stop was asked for.                                  *)
OwnBoot == /\ own = "boot" /\ panel' = "lua"
           /\ IF stop THEN own' = "recv" /\ UNCHANGED cancelled
              ELSE own' = "init" /\ cancelled' = FALSE
           /\ UNCHANGED <<session, ui, events, started, stop, done, flags, child, req, lua>>

OwnInit == /\ own = "init"
           /\ ScriptRuns
           /\ \/ failed' = TRUE /\ own' = "recv" /\ UNCHANGED ready
              \/ /\ ready' = TRUE /\ UNCHANGED failed
                 /\ own' = IF cancelled \/ stop THEN "recv" ELSE "first"
           /\ UNCHANGED <<ui, events, life, child, req, panel>>

(* The first frame: painted in full without a look at the request slots; a  *)
(* failure is recorded even when the cancel caused it.                      *)
OwnFirst == /\ own = "first" /\ own' = "recv"
            /\ ScriptRuns
            /\ failed' \in BOOLEAN
            /\ UNCHANGED <<ui, events, life, ready, child, req, panel>>

(* Mutant: events are handled over an open child. *)
DispatchOver(e) ==
  IF failed \/ ~ready \/ cancelled THEN "recv"
  ELSE IF e = "Draw" THEN IF scene THEN "scene" ELSE "answers"
  ELSE IF scene THEN "sceneInput" ELSE "input"

(* handleEventOnOwner up to its first call: what is done with event e. *)
Dispatch(e) ==
  IF failed \/ ~ready \/ cancelled THEN "recv"
  ELSE IF sub # NoChild THEN IF e = "Draw" /\ (kind = "Reader" \/ job # 0) THEN "pump" ELSE "recv"
  ELSE IF e = "Draw" THEN IF scene THEN "scene" ELSE "answers"
  ELSE IF scene THEN "sceneInput" ELSE "input"

OwnReceive == /\ own = "recv" /\ events # <<>>
              /\ events' = Tail(events)
              /\ own' = IF Head(events) = "Stop" THEN "stopping"
                        ELSE IF stop THEN "recv" ELSE Dispatch(Head(events))
              /\ UNCHANGED <<session, ui, life, flags, child, req, lua, panel>>

(* The queue stayed empty: a tick, or the stop whose event was lost. *)
OwnTick == /\ own = "recv" /\ events = <<>> /\ ~stop /\ ready /\ ~failed
           /\ own' = Dispatch("Draw") /\ own' # "recv"
           /\ UNCHANGED <<session, ui, events, life, flags, child, req, lua, panel>>

(* Mutant: the owner only stops on the event. *)
NoInjectedStop == FALSE /\ UNCHANGED vars

OwnInjectStop == /\ own = "recv" /\ events = <<>> /\ stop
                 /\ own' = "stopping"
                 /\ UNCHANGED <<session, ui, events, life, flags, child, req, lua, panel>>

(* Beneath a native child only the provider pump runs, and its failure is   *)
(* only logged.                                                             *)
OwnPump == /\ own = "pump" /\ ScriptRuns /\ own' = "recv"
           /\ UNCHANGED <<ui, events, life, flags, child, req, panel>>

(* The host paints its scene; a callback of it may fail on input. *)
OwnScene == /\ own \in {"scene", "sceneInput"} /\ ScriptRuns /\ own' = "recv"
            /\ failed' \in {failed, own = "sceneInput" /\ ~cancelled}
            /\ panel' = IF scene' \/ failed' THEN "lua" ELSE panel
            /\ UNCHANGED <<ui, events, life, ready, child, req>>

OwnTakeProgress == /\ own = "answers"
                   /\ TakeProgress
                   /\ own' = IF ProgressIsCurrent THEN "onReader" ELSE "tocAnswer"
                   /\ UNCHANGED <<ui, events, life, flags, child, req, lua, panel>>

OwnOnReaderClosed == LuaCall("onReader", "tocAnswer", "tocAnswer")

OwnTakeToc == /\ own = "tocAnswer"
              /\ TakeTocResult
              /\ own' = IF tocResult # 0 THEN "onToc" ELSE "draw"
              /\ UNCHANGED <<ui, events, life, flags, child, req, lua, panel>>

OwnOnTocClosed == LuaCall("onToc", "draw", "draw")

OwnInput == LuaCall("input", IF cancelled THEN "recv" ELSE "draw", "recv")

OwnDraw == LuaCall("draw", "launch", "recv")

(* tryLaunchPluginReader, then tryLaunchPluginToc: nothing to launch ... *)
OwnNoLaunch == /\ UNCHANGED <<session, ui, events, life, flags, child, req, lua, panel>>
               /\ \/ own = "launch" /\ (sub # NoChild \/ open = 0) /\ own' = "launchToc"
                  \/ own = "launchToc" /\ (sub # NoChild \/ toc = 0) /\ own' = "show"

(* ... or a request is taken. *)
OwnTake == /\ sub = NoChild /\ own' = "load"
           /\ \/ own = "launch" /\ TakeOpen
                 /\ req' = [kind |-> "Reader", gen |-> open, whole |-> whole]
              \/ own = "launchToc" /\ TakeToc
                 /\ req' = [kind |-> "Toc", gen |-> toc, whole |-> TRUE]
           /\ UNCHANGED <<ui, events, life, flags, child, lua, panel>>

Launched == IF req.kind = "Reader" THEN "launchToc" ELSE "show"

(* postEvent looks at the stop before it sends. *)
ToPost == IF stop \/ done THEN Launched ELSE "post"

(* An early open of a body still arriving shows the loading page. *)
OwnPlaceholder == /\ own = "load" /\ ~req.whole
                  /\ launching' = FALSE /\ panel' = "lua" /\ own' = ToPost
                  /\ UNCHANGED <<gen, slots, answers, ui, events, life, flags, child, req, lua>>

(* Mutant: a launch that failed stays in progress. *)
LoadFailsLaunching == /\ own = "load" /\ req.whole
                      /\ IF req.kind = "Reader" THEN progress' = req.gen /\ UNCHANGED tocResult
                         ELSE tocResult' = req.gen /\ UNCHANGED progress
                      /\ own' = ToPost
                      /\ UNCHANGED <<gen, slots, launching, ui, events, life, flags, child, req, lua, panel>>

(* Text or titles cannot be loaded: the failure is the answer. *)
OwnLoadFails == /\ own = "load" /\ req.whole
                /\ IF req.kind = "Reader" THEN progress' = req.gen /\ UNCHANGED tocResult
                   ELSE tocResult' = req.gen /\ UNCHANGED progress
                /\ launching' = FALSE /\ own' = ToPost
                /\ UNCHANGED <<gen, slots, ui, events, life, flags, child, req, lua, panel>>

OwnPost == /\ own = "post" /\ Send("Draw") /\ own' = Launched
           /\ UNCHANGED <<session, ui, life, flags, child, req, lua, panel>>

OwnLoaded == /\ own = "load" /\ req.whole
             /\ closePending' = FALSE /\ kind' = req.kind /\ own' = "enter"
             /\ UNCHANGED <<session, ui, events, life, flags, sub, req, lua, panel>>

(* enterNewActivity: the child is there for the UI task at once ... *)
OwnEnter == /\ own = "enter" /\ own' = "entering"
            /\ sub' = [kind |-> req.kind, gen |-> req.gen, state |-> "new", asked |-> FALSE]
            /\ UNCHANGED <<session, ui, events, life, flags, kind, closePending, req, lua, panel>>

(* ... and its onEnter, which forgets an earlier request to close, returns  *)
(* later, on a child the UI task may have closed or freed meanwhile.        *)
OwnEntered == /\ own = "entering" /\ own' = Launched
              /\ sub' = IF sub = NoChild \/ sub.state = "closed" THEN sub
                        ELSE [sub EXCEPT !.state = "open", !.asked = FALSE]
              /\ panel' = IF sub = NoChild THEN panel ELSE "native"
              /\ launching' = FALSE
              /\ UNCHANGED <<gen, slots, answers, ui, events, life, flags, kind, closePending, req, lua>>

(* Mutant: the Lua frame is shown whatever a child does. *)
ShowOver == /\ own = "show" /\ own' = "recv"
            /\ panel' \in {panel, "lua"}
            /\ UNCHANGED <<session, ui, events, life, flags, child, req, lua>>

(* The end of Draw and of input: the scene is painted first, else the Lua   *)
(* frame unless a child or a hand-off has the display (or it is unchanged). *)
OwnShow == /\ own = "show" /\ own' = "recv"
           /\ panel' \in IF scene \/ ~(sub # NoChild \/ HandoffBlocksLuaDisplay)
                         THEN {panel, "lua"} ELSE {panel}
           /\ UNCHANGED <<session, ui, events, life, flags, child, req, lua>>

(* Mutant: the owner leaves the session as its last callbacks left it. *)
StopUncleared == /\ own = "stopping" /\ own' = "epilogue"
                 /\ ready' = FALSE
                 /\ UNCHANGED <<session, ui, events, life, failed, child, req, lua, panel>>

(* The Stop handler, then the epilogue. *)
OwnStop == /\ own = "stopping" /\ own' = "epilogue"
           /\ ready' = FALSE /\ ClearForApp
           /\ UNCHANGED <<ui, events, life, failed, child, req, lua, panel>>

OwnDone == /\ own = "epilogue" /\ own' = "gone" /\ done' = TRUE
           /\ UNCHANGED <<session, ui, events, started, stop, cancelled, flags, child, req, lua, panel>>

-----------------------------------------------------------------------------
(* The UI task. *)

UiInput == /\ ui = "loop" /\ sub = NoChild /\ ready /\ ~failed /\ ~stop
           /\ PostEvent("Input")
           /\ UNCHANGED <<session, ui, own, life, flags, child, req, lua, panel>>

(* loop: a frame of the child, in which it may ask to be closed. *)
UiPump == /\ ui = "loop" /\ sub # NoChild /\ ui' = "child"
          /\ UNCHANGED <<session, own, events, life, flags, child, req, lua, panel>>

UiChildFrame == /\ ui = "child" /\ ui' = "pumped"
                /\ \/ UNCHANGED <<sub, closePending>>
                   \/ sub' = [sub EXCEPT !.asked = TRUE] /\ closePending' = TRUE
                /\ UNCHANGED <<session, own, events, life, flags, kind, req, lua, panel>>

UiStay == /\ ui = "pumped" /\ ~closePending /\ ui' = "loop"
          /\ UNCHANGED <<session, own, events, life, flags, child, req, lua, panel>>

(* The close asked for is carried out in the parent's frame: the child's    *)
(* answer is published, then exitActivity runs.                             *)
UiPublish == /\ ui = "pumped" /\ closePending /\ ui' = "close"
             /\ closePending' = FALSE /\ kind' = "None"
             /\ progress' = IF kind = "Reader" /\ sub.asked THEN sub.gen ELSE progress
             /\ tocResult' = IF kind = "Toc" THEN sub.gen ELSE tocResult
             /\ UNCHANGED <<gen, slots, launching, own, events, life, flags, sub, req, lua, panel>>

UiClose == /\ ui = "close" /\ ui' = "reset"
           /\ sub' = [sub EXCEPT !.state = "closed"]
           /\ UNCHANGED <<session, own, events, life, flags, kind, closePending, req, lua, panel>>

UiReset == /\ ui = "reset" /\ ui' = "post"
           /\ sub' = NoChild
           /\ UNCHANGED <<session, own, events, life, flags, kind, closePending, req, lua, panel>>

(* Mutant: the kind of the closed child is forgotten after it is gone. *)
PostForgets == /\ ui = "post" /\ PostEvent("Draw") /\ ui' = "loop" /\ kind' = "None"
               /\ UNCHANGED <<session, own, life, flags, sub, closePending, req, lua, panel>>

UiPost == /\ ui = "post" /\ PostEvent("Draw") /\ ui' = "loop"
          /\ UNCHANGED <<session, own, life, flags, child, req, lua, panel>>

(* The app is left: exit asked for by the script, Back, Home or sleep. *)
UiExit == /\ ui = "loop" /\ ui' = "exit"
          /\ UNCHANGED <<session, own, events, life, flags, child, req, lua, panel>>

(* onExit: exitActivity ... *)
UiExitChild == /\ ui = "exit"
               /\ IF sub = NoChild THEN ui' = "exitBase" /\ UNCHANGED sub
                  ELSE ui' = "exitReset" /\ sub' = [sub EXCEPT !.state = "closed"]
               /\ UNCHANGED <<session, own, events, life, flags, kind, closePending, req, lua, panel>>

UiExitReset == /\ ui = "exitReset" /\ ui' = "exitBase" /\ sub' = NoChild
               /\ UNCHANGED <<session, own, events, life, flags, kind, closePending, req, lua, panel>>

(* ... the base class's onExit, which closes but does not free a child ... *)
UiExitBase == /\ ui = "exitBase" /\ ui' = "stop"
              /\ sub' = IF sub = NoChild THEN sub ELSE [sub EXCEPT !.state = "closed"]
              /\ ClearForApp
              /\ UNCHANGED <<own, events, life, flags, kind, closePending, req, lua, panel>>

(* ... requestStopAndJoin ... *)
UiStop == /\ ui = "stop"
          /\ IF started THEN ui' = "send" /\ stop' = TRUE /\ cancelled' = TRUE
             ELSE ui' = "gone" /\ UNCHANGED <<stop, cancelled>>
          /\ UNCHANGED <<session, own, events, started, done, flags, child, req, lua, panel>>

(* The Stop event: a full queue loses its oldest event and is tried once    *)
(* more; a post of the owner that was under way may have filled it again.   *)
UiSend == /\ ui = "send"
          /\ IF done THEN ui' = "join" /\ UNCHANGED events
             ELSE IF Len(events) < QueueLen THEN ui' = "join" /\ events' = Append(events, "Stop")
             ELSE ui' = "resend" /\ events' = Tail(events)
          /\ UNCHANGED <<session, own, life, flags, child, req, lua, panel>>

UiResend == /\ ui = "resend" /\ ui' = "join"
            /\ events' = IF Len(events) < QueueLen THEN Append(events, "Stop") ELSE events
            /\ UNCHANGED <<session, own, life, flags, child, req, lua, panel>>

(* ... and the queue is freed; so is the activity, after onExit returns. *)
UiJoin == /\ ui = "join" /\ done /\ ui' = "gone"
          /\ UNCHANGED <<session, own, events, life, flags, child, req, lua, panel>>

-----------------------------------------------------------------------------
Owner == \/ OwnBoot \/ OwnInit \/ OwnFirst \/ OwnReceive \/ OwnTick \/ OwnInjectStop
         \/ OwnPump \/ OwnScene \/ OwnTakeProgress \/ OwnOnReaderClosed \/ OwnTakeToc
         \/ OwnOnTocClosed \/ OwnInput \/ OwnDraw \/ OwnNoLaunch \/ OwnTake
         \/ OwnPlaceholder \/ OwnLoadFails \/ OwnPost \/ OwnLoaded \/ OwnEnter \/ OwnEntered
         \/ OwnShow \/ OwnStop \/ OwnDone

(* The steps of a frame or a teardown under way, which need no user. *)
UiGoesOn == \/ UiChildFrame \/ UiStay \/ UiPublish \/ UiClose \/ UiReset \/ UiPost
            \/ UiExitChild \/ UiExitReset \/ UiExitBase \/ UiStop \/ UiSend \/ UiResend \/ UiJoin

Next == Owner \/ UiInput \/ UiPump \/ UiExit \/ UiGoesOn

Spec == Init /\ [][Next]_vars

(* Both are tasks of the scheduler that are ready whenever they can go on.  *)
FairSpec == Spec /\ WF_vars(Owner) /\ WF_vars(UiGoesOn)

-----------------------------------------------------------------------------
(* Properties. *)

(* The UI task casts the child it closes by pluginChildKind_, which the     *)
(* owner task writes: whenever a close is carried out, the kind is that of  *)
(* the child there is.                                                      *)
KindMatches == ui = "pumped" /\ closePending => sub # NoChild /\ sub.kind = kind

(* The activity and its queue are freed (onExit returns) only when the      *)
(* owner task is past its last access to them (M4xRuntimePump.h), and what  *)
(* its last callbacks queued is gone by then: the next app finds no         *)
(* request, hand-off or answer.                                             *)
SessionClean == ui = "gone" => own = "gone" /\ Empty

(* The script is told of a closed reader or chapter list only when no       *)
(* native child is open, though the answer is published before the close.   *)
ToldAfterClose == own \in {"onReader", "onToc"} => sub = NoChild

(* While a native child has the display the Lua side never paints over it;  *)
(* only a list scene, whose painting comes first, may.                      *)
DisplayKept == [][panel = "native" /\ panel' = "lua" => sub = NoChild \/ scene]_vars

(* A hand-off under way, which blocks the Lua display, always ends. *)
HandoffEnds == launching ~> ~launching

(* Leaving the app never hangs: the owner stops even when the Stop event    *)
(* was lost to a full queue or no owner task was ever made.                 *)
StopEnds == ui = "exit" ~> ui = "gone"
=============================================================================
