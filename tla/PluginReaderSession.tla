------------------------- MODULE PluginReaderSession -------------------------
(* The slots through which the Lua side of an app asks for the native       *)
(* reader or the chapter list, and through which those answer.  Each        *)
(* operation below holds the session's mutex in the code, so each is atomic.*)
(* A request or an answer is its generation; 0 is an empty slot.  The       *)
(* requests of one app are modelled: those of another app are refused.      *)
EXTENDS Naturals

CONSTANT MaxGen   \* bound on the generations until the app is left; entering it takes the first

ASSUME MaxGenAssumption == MaxGen \in Nat \ {0}

VARIABLES gen,        \* generation()
          open,       \* pendingOpen / openReady
          whole,      \* its body is complete (~pendingComplete)
          toc,        \* pendingToc / tocReady
          launching,  \* launchInProgress
          progress,   \* progressSlot, pendingDeliver
          tocResult   \* tocResultSlot, pendingDeliver

slots == <<open, whole, toc>>
answers == <<progress, tocResult>>
session == <<gen, slots, launching, answers>>

(* Every clearForApp takes a generation of its own: on leaving, two.        *)
Gens == 0..MaxGen + 2

SessionOK == /\ {gen, open, toc, progress, tocResult} \subseteq Gens
             /\ {whole, launching} \subseteq BOOLEAN

(* After the clearForApp of AppRuntimeActivity::onEnter. *)
SessionInit == /\ gen = 1 /\ open = 0 /\ toc = 0 /\ progress = 0 /\ tocResult = 0
               /\ whole = TRUE /\ launching = FALSE

Empty == open = 0 /\ toc = 0 /\ progress = 0 /\ tocResult = 0 /\ ~launching

ClearForApp == /\ open' = 0 /\ toc' = 0 /\ progress' = 0 /\ tocResult' = 0
               /\ launching' = FALSE /\ whole' = TRUE
               /\ gen' = gen + 1

BumpGeneration == gen < MaxGen /\ gen' = gen + 1

QueueOpen(g, complete) == /\ open' = g /\ whole' = complete /\ toc' = 0
                          /\ UNCHANGED <<launching, answers>>

QueueToc(g) == toc' = g /\ open' = 0 /\ UNCHANGED <<whole, launching, answers>>

TakeOpen == open # 0 /\ open' = 0 /\ launching' = TRUE /\ UNCHANGED <<gen, whole, toc, answers>>

TakeToc == toc # 0 /\ toc' = 0 /\ launching' = TRUE /\ UNCHANGED <<gen, whole, open, answers>>

HandoffBlocksLuaDisplay == open # 0 \/ toc # 0 \/ launching

(* Only the answer of the newest generation is handed out. *)
TakeProgress == progress' = 0 /\ UNCHANGED <<gen, slots, launching, tocResult>>

ProgressIsCurrent == progress # 0 /\ progress = gen

TakeTocResult == tocResult' = 0 /\ UNCHANGED <<gen, slots, launching, progress>>
=============================================================================
