---------------------------- MODULE JournalFile ----------------------------
(* The install journal's file protocol (apps/M4xInstallJournal.cpp): the    *)
(* document lives in a primary file, with a .bak and a .tmp beside it.      *)
(* Every operation starts with loadReconciledRaw, which repairs the files;  *)
(* upsert, remove and recoverAll then write a new document with             *)
(* durableWriteJournal.  Each SD call is a step of its own, and the power   *)
(* may be cut between any two of them.                                      *)
EXTENDS SdFile

VARIABLES disk,        \* the three files
          pc, copy,    \* the next call; the stage of a file write, if any
          op,          \* "load", or "update" when a save follows the load
          writing,     \* what durableWriteJournal runs for: "load" or "save"
          snap,        \* the bodies loadReconciledRaw read
          body,        \* the document durableWriteJournal writes
          hadPrimary,  \* its hadPrimary
          result,      \* what the last load returned
          offered,     \* history: the last saved document and those offered since
          possible     \* history: those a later load may still return

store == <<offered, possible>>
vars == <<disk, pc, copy, op, writing, snap, body, hadPrimary, result, store, fate>>

File == {"primary", "bak", "tmp"}

(* The writes of the protocol: where the data comes from ("ram" for the     *)
(* document in memory), where it goes and what follows.                     *)
Write == {"writeTmp", "toBak", "toPrimary", "undo", "repair", "fallback", "restore"}

Src == [writeTmp |-> "ram", toBak |-> "primary", toPrimary |-> "tmp",
        undo |-> "bak", repair |-> "bak", fallback |-> "bak", restore |-> "bak"]
Dst == [w \in Write |-> IF w = "writeTmp" THEN "tmp" ELSE IF w = "toBak" THEN "bak" ELSE "primary"]
(* Mutant: a save reports success once its tmp is written. *)
OnOkEarly == [writeTmp |-> "saved", toBak |-> "toPrimary", toPrimary |-> "verify",
              undo |-> "dropNew", repair |-> "failed", fallback |-> "returnBak",
              restore |-> "dropTmp"]

OnOk == [writeTmp |-> "checkPrimary", toBak |-> "toPrimary", toPrimary |-> "verify",
         undo |-> "dropNew", repair |-> "failed", fallback |-> "returnBak",
         restore |-> "dropTmp"]
(* Mutant: the result of writing the tmp is ignored. *)
OnFailIgnored == [writeTmp |-> "saved", toBak |-> "dropNew", toPrimary |-> "undoCheck",
                  undo |-> "dropNew", repair |-> "failed", fallback |-> "returnBak",
                  restore |-> "returnBak"]

OnFail == [writeTmp |-> "failed", toBak |-> "dropNew", toPrimary |-> "undoCheck",
           undo |-> "dropNew", repair |-> "failed", fallback |-> "returnBak",
           restore |-> "returnBak"]

Stage == {"no", "clear", "open", "fill", "unlink"}
Step == Write \cup {"idle", "read", "loaded", "clearTmp", "checkPrimary", "clearBak",
                    "undoCheck", "verify", "clearBad", "dropNew", "dropOldBak",
                    "dropOldTmp", "saved", "failed", "clearTorn", "clearPrimary", "dropTmp", "returnBak"}

(* JournalFile::decideLoad *)
decideLoad(d) == IF Valid(d.primary) THEN "Primary"
                 ELSE IF Valid(d.tmp) THEN "Tmp"
                 ELSE IF Valid(d.bak) THEN "Bak" ELSE "None"

(* The document a load would return if it read the files as they are now. *)
Recoverable(d) == IF decideLoad(d) = "Primary" THEN d.primary
                  ELSE IF decideLoad(d) = "Tmp" THEN d.tmp
                  ELSE IF decideLoad(d) = "Bak" THEN d.bak ELSE Nothing

TypeOK == /\ disk \in [File -> Content]
          /\ pc \in Step /\ copy \in Stage
          /\ op \in {"load", "update"} /\ writing \in {"load", "save"}
          /\ snap \in [File -> Content]
          /\ body \in Bodies \cup {Nothing}
          /\ hadPrimary \in BOOLEAN
          /\ result \in Bodies \cup {Nothing}
          /\ offered \subseteq Bodies \cup {Nothing} /\ possible \subseteq offered
          /\ FateOK

Empty == [f \in File |-> Absent]

Init == /\ disk = Empty /\ snap = Empty
        /\ pc = "idle" /\ copy = "no" /\ op = "load" /\ writing = "load"
        /\ body = Nothing /\ hadPrimary = FALSE /\ result = Nothing
        /\ offered = {Nothing} /\ possible = {Nothing}
        /\ FateInit

-----------------------------------------------------------------------------
Goto(p) == pc' = p /\ copy' = IF p = "writeTmp" THEN "clear" ELSE "no"
Put(f, c) == disk' = [disk EXCEPT ![f] = c]
Keep == UNCHANGED <<op, writing, snap, body, hadPrimary, result, store, fate>>

(* SdMan.exists(f) ? SdMan.remove(f), with the result ignored. *)
RemoveFile(at, f, next) ==
  /\ pc = at
  /\ \E c \in Removed(disk[f]) : Put(f, c)
  /\ Goto(next)
  /\ Keep

(* The load returns v to its caller, which saves next if it is an update. *)
LoadReturns(v) ==
  /\ result' = v /\ possible' = possible \cap {v} /\ UNCHANGED offered
  /\ Goto(IF op = "load" THEN "idle" ELSE "loaded")

-----------------------------------------------------------------------------
(* writeExactFile and renameOrCopy, for the write named by pc. *)
Buffer == IF Src[pc] = "ram" THEN body ELSE disk[Src[pc]]

RenameFile ==
  /\ pc \in Write /\ copy = "no"
  /\ CanRename(disk[Src[pc]], disk[Dst[pc]])
  /\ disk' = [disk EXCEPT ![Dst[pc]] = disk[Src[pc]], ![Src[pc]] = Absent]
  /\ Goto(OnOk[pc])
  /\ Keep

RenameRefused ==
  /\ pc \in Write /\ copy = "no"
  /\ \/ MayFail("rename")
     \/ ~CanRename(disk[Src[pc]], disk[Dst[pc]])
  /\ \/ /\ MayFail("read") \/ ~Exists(disk[Src[pc]])
        /\ Goto(OnFail[pc])
     \/ /\ Exists(disk[Src[pc]])
        /\ pc' = pc /\ copy' = "clear"
  /\ UNCHANGED disk
  /\ Keep

ClearTarget ==
  /\ pc \in Write /\ copy = "clear"
  /\ \E c \in Removed(disk[Dst[pc]]) : Put(Dst[pc], c)
  /\ pc' = pc /\ copy' = "open"
  /\ Keep

OpenTarget ==
  /\ pc \in Write /\ copy = "open"
  /\ \/ Put(Dst[pc], Torn) /\ pc' = pc /\ copy' = "fill"
     \/ MayFail("open") /\ Goto(OnFail[pc]) /\ UNCHANGED disk
  /\ Keep

FillTarget ==
  /\ pc \in Write /\ copy = "fill"
  /\ \/ /\ Put(Dst[pc], Buffer)
        /\ IF Src[pc] = "ram" THEN Goto(OnOk[pc]) ELSE pc' = pc /\ copy' = "unlink"
     \/ /\ MayFail("write")
        /\ \E c \in Removed(Torn) : Put(Dst[pc], c)
        /\ Goto(OnFail[pc])
     \/ /\ MayFail("read")                    \* the size check cannot reopen it
        /\ Put(Dst[pc], Buffer)
        /\ Goto(OnFail[pc])
  /\ Keep

UnlinkSource ==
  /\ pc \in Write /\ copy = "unlink"
  /\ \E c \in Removed(disk[Src[pc]]) : Put(Src[pc], c)
  /\ Goto(OnOk[pc])
  /\ Keep

WriteStep == \/ RenameFile \/ RenameRefused \/ ClearTarget
             \/ OpenTarget \/ FillTarget \/ UnlinkSource

-----------------------------------------------------------------------------
(* durableWriteJournal *)
StartWrite(b, why) ==
  /\ body' = b /\ writing' = why
  /\ Goto("clearTmp")

CheckPrimary ==
  /\ pc = "checkPrimary"
  /\ hadPrimary' = Exists(disk.primary)
  /\ Goto(IF Exists(disk.primary) THEN "clearBak" ELSE "toPrimary")
  /\ UNCHANGED <<disk, op, writing, snap, body, result, store, fate>>

UndoCheck ==
  /\ pc = "undoCheck"
  /\ Goto(IF hadPrimary /\ Exists(disk.bak) THEN "undo" ELSE "dropNew")
  /\ UNCHANGED disk /\ Keep

Verify ==
  /\ pc = "verify"
  /\ \E c \in ReadResult(disk.primary) :
       Goto(IF Valid(c) THEN "dropOldBak"
            ELSE IF hadPrimary /\ Exists(disk.bak) THEN "clearBad" ELSE "failed")
  /\ UNCHANGED disk /\ Keep

DropStep == \/ RemoveFile("clearTmp", "tmp", "writeTmp")
            \/ RemoveFile("clearBak", "bak", "toBak")
            \/ RemoveFile("dropNew", "tmp", "failed")
            \/ RemoveFile("clearBad", "primary", "repair")
            \/ RemoveFile("dropOldBak", "bak", "dropOldTmp")
            \/ RemoveFile("dropOldTmp", "tmp", "saved")
            \/ RemoveFile("clearTorn", "primary", "fallback")
            \/ RemoveFile("clearPrimary", "primary", "restore")

(* durableWriteJournal returns true. *)
WriteSaved ==
  /\ pc = "saved"
  /\ \/ writing = "save" /\ offered' = {body} /\ possible' = {body}
        /\ Goto("idle") /\ UNCHANGED result
     \/ writing = "load" /\ LoadReturns(body)
  /\ UNCHANGED <<disk, op, writing, snap, body, hadPrimary, fate>>

(* It returns false: a save reports it, a load falls back to the bak.       *)
WriteFailed ==
  /\ pc = "failed"
  /\ \/ writing = "save" /\ Goto("idle") /\ UNCHANGED <<result, store>>
     \/ writing = "load" /\ Valid(snap.bak) /\ Goto("clearTorn")
        /\ UNCHANGED <<result, store>>
     \/ writing = "load" /\ ~Valid(snap.bak) /\ LoadReturns(body)
  /\ UNCHANGED <<disk, op, writing, snap, body, hadPrimary, fate>>

-----------------------------------------------------------------------------
(* loadReconciledRaw *)
BeginLoad(kind) ==
  /\ pc = "idle"
  /\ op' = kind
  /\ Goto("read")
  /\ UNCHANGED <<disk, writing, snap, body, hadPrimary, result, store, fate>>

ReadFiles ==
  /\ pc = "read"
  /\ snap' \in {s \in [File -> Content] : \A f \in File : s[f] \in ReadResult(disk[f])}
  /\ \/ /\ decideLoad(snap') = "Primary" /\ Goto("dropTmp")
        /\ UNCHANGED <<body, writing, result, store>>
     \/ /\ decideLoad(snap') = "Tmp" /\ StartWrite(snap'.tmp, "load")
        /\ UNCHANGED <<result, store>>
     \/ /\ decideLoad(snap') = "Bak" /\ Goto("clearPrimary")
        /\ UNCHANGED <<body, writing, result, store>>
     \/ /\ decideLoad(snap') = "None" /\ LoadReturns(Nothing)
        /\ UNCHANGED <<body, writing>>
  /\ UNCHANGED <<disk, op, hadPrimary, fate>>

DropStaleTmp ==
  /\ pc = "dropTmp"
  /\ IF Exists(snap.tmp) THEN \E c \in Removed(disk.tmp) : Put("tmp", c) ELSE UNCHANGED disk
  /\ LoadReturns(Recoverable(snap))
  /\ UNCHANGED <<op, writing, snap, body, hadPrimary, fate>>

ReturnBak ==
  /\ pc = "returnBak"
  /\ LoadReturns(snap.bak)
  /\ UNCHANGED <<disk, op, writing, snap, body, hadPrimary, fate>>

(* saveAll, which every update reaches with the list it has just loaded.    *)
Save(b) ==
  /\ pc = "loaded"
  /\ StartWrite(b, "save")
  /\ offered' = offered \cup {b} /\ possible' = possible \cup {b}
  /\ UNCHANGED <<disk, op, snap, hadPrimary, result, fate>>

(* The power is cut: the files stay, everything else is gone. *)
Crash ==
  /\ PowerCut
  /\ pc # "idle"
  /\ Goto("idle")
  /\ op' = "load" /\ writing' = "load"
  /\ snap' = Empty /\ body' = Nothing /\ hadPrimary' = FALSE /\ result' = Nothing
  /\ UNCHANGED <<disk, store>>

Next == \/ \E kind \in {"load", "update"} : BeginLoad(kind)
        \/ \E b \in Bodies : Save(b)
        \/ ReadFiles \/ DropStaleTmp \/ ReturnBak
        \/ WriteStep \/ DropStep
        \/ CheckPrimary \/ UndoCheck \/ Verify \/ WriteSaved \/ WriteFailed
        \/ Crash

Spec == Init /\ [][Next]_vars

-----------------------------------------------------------------------------
(* Whenever the power is cut, the next load finds a document the store may  *)
(* hold: the last one that a save reported written or a load returned, or   *)
(* one offered since.  A document that was reported or shown is never lost, *)
(* torn, or replaced by an older one (durableWriteJournal, M4xInstall-      *)
(* Journal.cpp:150), on a card whose opens, reads and writes work.          *)
Durable == faults \cap {"open", "read", "write"} = {} => Recoverable(disk) \in possible

(* The same, forgetting what loads returned: a document that a save         *)
(* reported written stays until a later save is begun.                      *)
SaveDurable == Recoverable(disk) \in offered

(* When only the power can fail, the journal is a durable store in the      *)
(* sense of DurableCell, which promises more than Durable: the document it  *)
(* holds is the one a load would return, it moves only between documents on *)
(* offer, and an operation that reports a document loaded or saved reports  *)
(* the one the store holds.  Nothing is claimed of a card whose calls fail. *)
CellHeld == IF faults = {} THEN Recoverable(disk) ELSE Nothing
CellOffered == IF faults = {} THEN possible ELSE {Nothing}
Cell == INSTANCE DurableCell WITH Docs <- Bodies, Blank <- Nothing,
                                  held <- CellHeld, offered <- CellOffered
ImplementsCell == Cell!Spec
-----------------------------------------------------------------------------
(* The inductive invariant behind both, for faults within {"open", "write"}: *)
(* the document a load would return, and the one it would return without   *)
(* the tmp, are both on offer, because each destroying call of the protocol *)
(* finds another file that holds what it destroys.                          *)
Base(d) == IF Valid(d.primary) THEN d.primary ELSE IF Valid(d.bak) THEN d.bak ELSE Nothing

Allowed == IF faults = {} THEN possible ELSE offered

Writing == {"clearTmp", "writeTmp", "checkPrimary", "clearBak", "toBak", "toPrimary",
            "verify", "dropOldBak", "dropOldTmp", "saved"}
RenameRefusedOnly == {"undoCheck", "undo", "dropNew", "clearBad", "repair"}
CallFailedOnly == {"failed", "clearTorn", "fallback", "returnBak"}

Held == /\ Recoverable(disk) \in Allowed /\ Base(disk) \in Allowed
        /\ disk.primary # Torn /\ disk.bak # Torn
        /\ pc \in Writing => body \in Bodies \cap Allowed

Places ==
  /\ IF pc = "writeTmp" THEN copy \in {"clear", "open", "fill"} ELSE copy = "no"
  /\ pc \notin RenameRefusedOnly
  /\ pc \in CallFailedOnly => faults # {}

Protocol ==
  /\ pc \in {"checkPrimary", "clearBak", "toBak", "toPrimary"} => disk.tmp = body
  /\ pc \in {"clearBak", "toBak"} => Exists(disk.primary)
  /\ pc = "toBak" => ~Exists(disk.bak)
  /\ pc = "toPrimary" => ~Exists(disk.primary)
  /\ pc \in {"verify", "dropOldBak", "dropOldTmp", "saved"} => disk.primary = body

Repair ==
  /\ pc = "dropTmp" => Valid(disk.primary) /\ Recoverable(snap) = disk.primary
  /\ pc \in {"clearPrimary", "restore"} =>
       /\ ~Valid(snap.primary) /\ ~Valid(snap.tmp) /\ Valid(snap.bak)
       /\ ~Exists(disk.primary) /\ ~Valid(disk.tmp) /\ disk.bak = snap.bak
  /\ \/ pc \in {"clearTmp", "writeTmp", "failed"} /\ writing = "load"
     \/ pc \in {"clearTorn", "fallback"}
     => ~Exists(disk.primary) /\ disk.bak = snap.bak
  /\ pc \in {"clearTorn", "fallback"} => Valid(snap.bak)

JournalInv == TypeOK /\ Held /\ Places /\ Protocol /\ Repair

(* While only opens, writes and the power fail, each destroying call finds  *)
(* another file that holds what it destroys (durableWriteJournal, loadRe-   *)
(* conciledRaw).                                                            *)
ProtocolKept == faults \subseteq {"open", "write"} => JournalInv
=============================================================================
