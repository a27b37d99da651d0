---------------------------- MODULE RegistryFile ----------------------------
(* The app registry's file protocol (apps/M4xRegistry.cpp): one document in *)
(* a primary file with a .bak and a .tmp.  load reads the primary, else the *)
(* bak, which it then copies over the primary; it never looks at the tmp.   *)
(* Every caller of save has loaded first.                                   *)
EXTENDS SdFile

VARIABLES disk,      \* the three files
          pc, stage, \* the next call; the stage of a file write, if any
          op,        \* "load", or "update" when a save follows
          out,       \* the document load returns, or the one save writes
          before,    \* history: what load would have returned when the save began
          offered,   \* history: the last saved document and those offered since
          possible   \* history: those a later load may still return

registry == <<disk, pc, stage, op, out, before, offered, possible, fate>>

File == {"primary", "bak", "tmp"}

(* writeAllTextExact calls: the file written and what follows.              *)
Write == {"heal", "writeTmp", "copyToBak", "rewrite"}
(* Mutant: the new list is written over the primary. *)
DstInPlace == [heal |-> "primary", writeTmp |-> "primary", copyToBak |-> "bak",
               rewrite |-> "primary"]
(* Mutant: a save reports success once its tmp is written. *)
OnOkEarly == [heal |-> "loaded", writeTmp |-> "saved", copyToBak |-> "dropPrimary",
              rewrite |-> "dropTmp"]

Dst == [heal |-> "primary", writeTmp |-> "tmp", copyToBak |-> "bak", rewrite |-> "primary"]
OnOk == [heal |-> "loaded", writeTmp |-> "checkPrimary", copyToBak |-> "dropPrimary",
         rewrite |-> "dropTmp"]
OnFail == [heal |-> "loaded", writeTmp |-> "failed", copyToBak |-> "dropPrimary",
           rewrite |-> "undo"]

Step == Write \cup {"idle", "readPrimary", "readBak", "loaded", "checkPrimary",
                    "clearBak", "moveToBak", "dropPrimary", "promote", "dropTmp",
                    "undo", "saved", "failed", "ready"}

(* What load would return from the files as they are now. *)
Recoverable(d) == IF Valid(d.primary) THEN d.primary
                  ELSE IF Valid(d.bak) THEN d.bak ELSE Nothing

TypeOK == /\ disk \in [File -> Content]
          /\ pc \in Step /\ stage \in {"no", "clear", "open", "fill"}
          /\ op \in {"load", "update"}
          /\ out \in Bodies \cup {Nothing} /\ before \in Bodies \cup {Nothing}
          /\ offered \subseteq Bodies \cup {Nothing} /\ possible \subseteq offered
          /\ FateOK

Init == /\ disk = [f \in File |-> Absent]
        /\ pc = "idle" /\ stage = "no" /\ op = "load" /\ out = Nothing /\ before = Nothing
        /\ offered = {Nothing} /\ possible = {Nothing}
        /\ FateInit

-----------------------------------------------------------------------------
Goto(p) == pc' = p /\ stage' = IF p \in Write THEN "clear" ELSE "no"
Put(f, c) == disk' = [disk EXCEPT ![f] = c]
Keep == UNCHANGED <<op, out, before, offered, possible, fate>>

(* writeAllTextExact.  copyToBak writes what readAllText got from the       *)
(* primary, the other calls write the document in memory.                   *)
Buffer == IF pc = "copyToBak" THEN disk.primary ELSE out

ClearTarget == /\ pc \in Write /\ stage = "clear"
               /\ \E c \in Removed(disk[Dst[pc]]) : Put(Dst[pc], c)
               /\ pc' = pc /\ stage' = "open"
               /\ Keep

OpenTarget == /\ pc \in Write /\ stage = "open"
              /\ \/ Put(Dst[pc], Torn) /\ pc' = pc /\ stage' = "fill"
                 \/ MayFail("open") /\ Goto(OnFail[pc]) /\ UNCHANGED disk
              /\ Keep

FillTarget == /\ pc \in Write /\ stage = "fill"
              /\ \/ Put(Dst[pc], Buffer) /\ Goto(OnOk[pc])
                 \/ /\ MayFail("write")
                    /\ \E c \in Removed(Torn) : Put(Dst[pc], c)
                    /\ Goto(OnFail[pc])
              /\ Keep

WriteStep == ClearTarget \/ OpenTarget \/ FillTarget

-----------------------------------------------------------------------------
(* M4xRegistry::load *)
BeginLoad(kind) ==
  /\ pc = "idle"
  /\ op' = kind
  /\ Goto("readPrimary")
  /\ UNCHANGED <<disk, out, before, offered, possible, fate>>

ReadPrimary ==
  /\ pc = "readPrimary"
  /\ \E c \in ReadResult(disk.primary) :
       /\ out' = IF Valid(c) THEN c ELSE Nothing
       /\ Goto(IF Valid(c) THEN "loaded" ELSE "readBak")
  /\ UNCHANGED <<disk, op, before, offered, possible, fate>>

ReadBak ==
  /\ pc = "readBak"
  /\ \E c \in ReadResult(disk.bak) :
       /\ out' = IF Valid(c) THEN c ELSE Nothing
       /\ Goto(IF Valid(c) THEN "heal" ELSE "loaded")
  /\ UNCHANGED <<disk, op, before, offered, possible, fate>>

LoadReturns ==
  /\ pc = "loaded"
  /\ possible' = possible \cap {out}
  /\ Goto(IF op = "load" THEN "idle" ELSE "ready")
  /\ UNCHANGED <<disk, op, out, before, offered, fate>>

-----------------------------------------------------------------------------
(* M4xRegistry::save *)
Save(b) ==
  /\ pc = "ready"
  /\ out' = b /\ before' = Recoverable(disk)
  /\ offered' = offered \cup {b} /\ possible' = possible \cup {b}
  /\ Goto("writeTmp")
  /\ UNCHANGED <<disk, op, fate>>

CheckPrimary ==
  /\ pc = "checkPrimary"
  /\ Goto(IF Exists(disk.primary) THEN "clearBak" ELSE "promote")
  /\ UNCHANGED disk /\ Keep

ClearBak ==
  /\ pc = "clearBak"
  /\ \E c \in Removed(disk.bak) : Put("bak", c)
  /\ Goto("moveToBak")
  /\ Keep

MoveToBak ==
  /\ pc = "moveToBak"
  /\ \/ /\ CanRename(disk.primary, disk.bak)
        /\ disk' = [disk EXCEPT !.bak = disk.primary, !.primary = Absent]
        /\ Goto("promote")
     \/ /\ MayFail("rename") \/ ~CanRename(disk.primary, disk.bak)
        /\ UNCHANGED disk
        /\ \/ Goto("copyToBak")
           \/ (disk.primary = Torn \/ MayFail("read")) /\ Goto("dropPrimary")
  /\ Keep

DropPrimary ==
  /\ pc = "dropPrimary"
  /\ \E c \in Removed(disk.primary) : Put("primary", c)
  /\ Goto("promote")
  /\ Keep

Promote ==
  /\ pc = "promote"
  /\ \/ /\ CanRename(disk.tmp, disk.primary)
        /\ disk' = [disk EXCEPT !.primary = disk.tmp, !.tmp = Absent]
        /\ Goto("saved")
     \/ /\ MayFail("rename") \/ ~CanRename(disk.tmp, disk.primary)
        /\ Goto("rewrite")
        /\ UNCHANGED disk
  /\ Keep

DropTmp ==
  /\ pc = "dropTmp"
  /\ \E c \in Removed(disk.tmp) : Put("tmp", c)
  /\ Goto("saved")
  /\ Keep

(* The direct write failed too: bak goes back, if the rename is accepted.   *)
Undo ==
  /\ pc = "undo"
  /\ \/ /\ CanRename(disk.bak, disk.primary)
        /\ disk' = [disk EXCEPT !.primary = disk.bak, !.bak = Absent]
     \/ /\ MayFail("rename") \/ ~CanRename(disk.bak, disk.primary)
        /\ UNCHANGED disk
  /\ Goto("failed")
  /\ Keep

SaveReturns ==
  /\ pc \in {"saved", "failed"}
  /\ IF pc = "saved" THEN offered' = {out} /\ possible' = {out}
                     ELSE UNCHANGED <<offered, possible>>
  /\ Goto("idle")
  /\ UNCHANGED <<disk, op, out, before, fate>>

Crash ==
  /\ PowerCut
  /\ pc # "idle"
  /\ Goto("idle")
  /\ op' = "load" /\ out' = Nothing
  /\ UNCHANGED <<disk, before, offered, possible>>

Next == \/ \E kind \in {"load", "update"} : BeginLoad(kind)
        \/ ReadPrimary \/ ReadBak \/ LoadReturns
        \/ \E b \in Bodies : Save(b)
        \/ WriteStep \/ CheckPrimary \/ ClearBak \/ MoveToBak \/ DropPrimary
        \/ Promote \/ DropTmp \/ Undo \/ SaveReturns
        \/ Crash

Spec == Init /\ [][Next]_registry

-----------------------------------------------------------------------------
(* Where both writes and renames or removals fail, nothing is claimed of a  *)
(* save: it ignores whether its copy of the primary to the bak succeeded,   *)
(* and whether the load before it could heal a torn primary.                *)
WritesWork == faults \cap {"open", "write"} = {}
MovesWork == faults \cap {"rename", "remove"} = {}
CardServes == WritesWork \/ MovesWork

(* A primary that cannot be read is taken for none, and overwritten with    *)
(* the older bak.                                                           *)
CardReads == CardServes /\ "read" \notin faults

(* Whatever call the power cut or the failure hits, the next load finds a   *)
(* list the registry may hold: the last one reported saved or loaded, or    *)
(* one offered since (M4xRegistry.cpp:119-179).                             *)
Durable == CardReads => Recoverable(disk) \in possible

(* save returns false only with the old list still in place, so that an     *)
(* install or a recovery that sees it fail may act as if it had not run     *)
(* (M4xInstaller.cpp:741-748, 524, 785).                                    *)
FailedSaveKeepsOld == pc = "failed" /\ CardServes => Recoverable(disk) = before

(* save returns true only with the new list as the one a load would return, *)
(* however it got there: install drops the old version's bak on the         *)
(* strength of it (M4xInstaller.cpp:740-757).                               *)
SavedIsLoaded == pc = "saved" => Recoverable(disk) = out

(* On a card that serves, the registry is a durable store in the sense of   *)
(* DurableCell, which promises more than Durable: the document it holds is  *)
(* the one a load would return, it moves only between documents on offer,   *)
(* and an operation that reports a document loaded or saved reports the one *)
(* the store holds.                                                         *)
CellHeld == IF CardReads THEN Recoverable(disk) ELSE Nothing
CellOffered == IF CardReads THEN possible ELSE {Nothing}
Cell == INSTANCE DurableCell WITH Docs <- Bodies, Blank <- Nothing,
                                  held <- CellHeld, offered <- CellOffered
ImplementsCell == Cell!Spec
=============================================================================
