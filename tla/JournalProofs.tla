--------------------------- MODULE JournalProofs ---------------------------
(* What JournalFile promises for every set of documents: it stays within    *)
(* its types whatever calls fail (Spec => []TypeOK), it keeps the last      *)
(* saved document when opens and writes may fail (SaveDurable), and, when   *)
(* only the power may fail, a document that was shown as well (Durable) and *)
(* is a durable cell (ImplementsCell).  Then the list of records as the     *)
(* journal's clients see it, for any package ids: every request is a load,  *)
(* and perhaps a save, of JournalFile (so that what is proved of the file   *)
(* holds of the list), and a record that was reported written is in every   *)
(* document a later load may return.                                        *)
EXTENDS InstallJournal, TLAPS

-----------------------------------------------------------------------------
(* The tables of the writes.                                                *)
LEMMA TableTypes ==
  \A w \in Write :
    /\ Src[w] \in File \cup {"ram"} /\ Dst[w] \in File
    /\ Src[w] = "ram" <=> w = "writeTmp"
    /\ \A next \in {OnOk[w], OnFail[w]} :
         /\ next \in {"checkPrimary", "toPrimary", "verify", "dropNew", "undoCheck",
                     "failed", "returnBak", "dropTmp"}
         /\ next = "returnBak" => w \in {"fallback", "restore"}
BY DEF Write, Src, Dst, OnOk, OnFail, File

LEMMA Rows ==
  /\ Src["writeTmp"] = "ram" /\ Dst["writeTmp"] = "tmp"
  /\ OnOk["writeTmp"] = "checkPrimary" /\ OnFail["writeTmp"] = "failed"
  /\ Src["toBak"] = "primary" /\ Dst["toBak"] = "bak" /\ OnOk["toBak"] = "toPrimary"
  /\ Src["toPrimary"] = "tmp" /\ Dst["toPrimary"] = "primary" /\ OnOk["toPrimary"] = "verify"
  /\ Src["fallback"] = "bak" /\ Dst["fallback"] = "primary" /\ OnOk["fallback"] = "returnBak"
  /\ Src["restore"] = "bak" /\ Dst["restore"] = "primary" /\ OnOk["restore"] = "dropTmp"
BY DEF Src, Dst, OnOk, OnFail, Write
-----------------------------------------------------------------------------
(* Types.  A document in memory is a document wherever the protocol is      *)
(* about to write or to return it.                                          *)
HasBody == pc \in {"clearTmp", "writeTmp"} => body \in Bodies

HasBak == pc \in {"clearTorn", "fallback", "returnBak", "clearPrimary", "restore"}
            => Valid(snap.bak)

(* The document in memory is never renamed. *)
HasStage == pc = "writeTmp" => copy # "no"

TypeInv == TypeOK /\ HasBody /\ HasBak /\ HasStage

LEMMA RecoverableType ==
  ASSUME NEW d \in [File -> Content]
  PROVE  /\ Recoverable(d) \in Bodies \cup {Nothing}
         /\ decideLoad(d) = "Tmp" => Valid(d.tmp)
         /\ decideLoad(d) = "Bak" => Valid(d.bak)
BY DEF Recoverable, decideLoad, Valid, File

LEMMA RemovedType == ASSUME NEW c \in Content PROVE Removed(c) \subseteq Content
BY DEF Removed, Content

LEMMA ReadType == ASSUME NEW c \in Content PROVE ReadResult(c) \subseteq Content
BY DEF ReadResult, Content

LEMMA InitTypeInv == Init => TypeInv
<1> SUFFICES ASSUME Init PROVE TypeInv
  OBVIOUS
<1>1. FateOK
  BY FateAssumption DEF Init, FateInit, FateOK
<1> QED
  BY <1>1 DEF Init, TypeInv, TypeOK, HasBody, HasBak, HasStage, Empty, Content, Step, Stage, File

(* What the three ways to go on leave in pc and copy.                       *)
LEMMA GotoType ==
  ASSUME NEW p \in Step, Goto(p)
  PROVE  pc' = p /\ copy' \in Stage
BY DEF Goto, Stage

LEMMA PutType ==
  ASSUME disk \in [File -> Content], NEW f \in File, NEW c \in Content, Put(f, c)
  PROVE  disk' \in [File -> Content]
BY DEF Put

(* A step may use up a power cut; which calls fail stays as it was.         *)
LEMMA FateStep ==
  ASSUME [Next]_vars
  PROVE  UNCHANGED fate \/ PowerCut
BY DEF Next, vars, fate, Crash, DropStep, RemoveFile, WriteStep, RenameFile, RenameRefused,
       ClearTarget, OpenTarget, FillTarget, UnlinkSource, Keep, BeginLoad, Save, ReadFiles,
       DropStaleTmp, ReturnBak, CheckPrimary, UndoCheck, Verify, WriteSaved, WriteFailed

LEMMA FateTypes ==
  ASSUME FateOK, [Next]_vars
  PROVE  FateOK' /\ faults' = faults
BY FateStep, FateAssumption DEF FateOK, fate, PowerCut

LEMMA TypeStep == TypeInv /\ [Next]_vars => TypeInv'
<1> SUFFICES ASSUME TypeInv, [Next]_vars PROVE TypeInv'
  OBVIOUS
<1> FateOK'
  BY FateTypes DEF TypeInv, TypeOK
<1> USE DEF TypeInv, TypeOK, HasBody, HasBak, HasStage, Keep, store
<1>1. ASSUME NEW kind \in {"load", "update"}, BeginLoad(kind) PROVE TypeInv'
  BY <1>1 DEF BeginLoad, Goto, Step, Stage
<1>2. ASSUME NEW b \in Bodies, Save(b) PROVE TypeInv'
  BY <1>2 DEF Save, StartWrite, Goto, Step, Stage
<1>3. CASE ReadFiles
  <2>1. snap' \in [File -> Content]
    BY <1>3, ReadType DEF ReadFiles
  <2>2. decideLoad(snap') = "Tmp" => snap'.tmp \in Bodies
    BY <2>1, RecoverableType DEF Valid
  <2>3. decideLoad(snap') = "Bak" => Valid(snap'.bak)
    BY <2>1, RecoverableType
  <2>4. CASE decideLoad(snap') = "Primary" /\ Goto("dropTmp") /\ UNCHANGED <<body, writing, result, store>>
    BY <1>3, <2>1, <2>4 DEF ReadFiles, Goto, Step, Stage
  <2>5. CASE decideLoad(snap') = "Tmp" /\ StartWrite(snap'.tmp, "load") /\ UNCHANGED <<result, store>>
    BY <1>3, <2>1, <2>2, <2>5 DEF ReadFiles, StartWrite, Goto, Step, Stage
  <2>6. CASE decideLoad(snap') = "Bak" /\ Goto("clearPrimary") /\ UNCHANGED <<body, writing, result, store>>
    BY <1>3, <2>1, <2>3, <2>6 DEF ReadFiles, Goto, Step, Stage
  <2>7. CASE decideLoad(snap') = "None" /\ LoadReturns(Nothing) /\ UNCHANGED <<body, writing>>
    BY <1>3, <2>1, <2>7 DEF ReadFiles, LoadReturns, Goto, Step, Stage
  <2> QED
    BY <1>3, <2>4, <2>5, <2>6, <2>7 DEF ReadFiles
<1>4. CASE DropStaleTmp
  <2>1. disk' \in [File -> Content]
    BY <1>4, RemovedType DEF DropStaleTmp, Put, File
  <2>2. Recoverable(snap) \in Bodies \cup {Nothing}
    BY RecoverableType
  <2> QED
    BY <1>4, <2>1, <2>2 DEF DropStaleTmp, LoadReturns, Goto, Step, Stage
<1>5. CASE ReturnBak
  BY <1>5 DEF ReturnBak, LoadReturns, Goto, Step, Stage, Valid
<1>6. CASE WriteStep
  <2> SUFFICES ASSUME pc \in Write
               PROVE  TypeInv'
    BY <1>6 DEF WriteStep, RenameFile, RenameRefused, ClearTarget, OpenTarget,
                FillTarget, UnlinkSource
  <2>1. Src[pc] \in File \cup {"ram"} /\ Dst[pc] \in File /\ (Src[pc] = "ram" <=> pc = "writeTmp")
    BY TableTypes
  <2>2. ASSUME NEW next \in {OnOk[pc], OnFail[pc]}, Goto(next), Keep
        PROVE  /\ pc' \in Step /\ copy' \in Stage
               /\ HasBody' /\ HasBak' /\ HasStage'
    BY <2>2, TableTypes DEF Goto, Step, Write, Stage
  <2>3. ASSUME NEW s \in Stage \ {"no"}, pc' = pc, copy' = s, Keep
        PROVE  /\ pc' \in Step /\ copy' \in Stage
               /\ HasBody' /\ HasBak' /\ HasStage'
    BY <2>3
  <2>4. Keep
    BY <1>6 DEF WriteStep, RenameFile, RenameRefused, ClearTarget, OpenTarget,
                FillTarget, UnlinkSource
  <2>5. Buffer \in Content
    BY <2>1 DEF Buffer, Content, Write
  <2>6. CASE RenameFile
    <3>1. disk' \in [File -> Content]
      BY <2>1, <2>6 DEF RenameFile, Content, CanRename, Exists, File
    <3> QED
      BY <2>2, <2>4, <2>6, <3>1 DEF RenameFile
  <2>7. CASE RenameRefused
    BY <2>2, <2>3, <2>4, <2>7 DEF RenameRefused, Stage
  <2>8. CASE ClearTarget
    <3>1. disk' \in [File -> Content]
      BY <2>1, <2>8, RemovedType DEF ClearTarget, Put
    <3> QED
      BY <2>3, <2>4, <2>8, <3>1 DEF ClearTarget, Stage
  <2>9. CASE OpenTarget
    <3>1. disk' \in [File -> Content]
      BY <2>1, <2>9 DEF OpenTarget, Put, Content
    <3> QED
      BY <2>2, <2>3, <2>4, <2>9, <3>1 DEF OpenTarget, Stage
  <2>10. CASE FillTarget
    <3>1. Removed(Torn) \subseteq Content
      BY RemovedType DEF Content
    <3>2. disk' \in [File -> Content]
      BY <2>1, <2>5, <2>10, <3>1 DEF FillTarget, Put
    <3> QED
      BY <2>2, <2>3, <2>4, <2>10, <3>2 DEF FillTarget, Stage
  <2>11. CASE UnlinkSource
    <3>1. disk' \in [File -> Content]
      BY <2>1, <2>11, RemovedType DEF UnlinkSource, Put
    <3> QED
      BY <2>2, <2>4, <2>11, <3>1 DEF UnlinkSource
  <2> QED
    BY <1>6, <2>6, <2>7, <2>8, <2>9, <2>10, <2>11 DEF WriteStep
<1>7. CASE DropStep
  <2>1. ASSUME NEW at, NEW f \in File, NEW next \in Step, RemoveFile(at, f, next)
        PROVE  /\ disk' \in [File -> Content] /\ copy' \in Stage
               /\ pc = at /\ pc' = next /\ Keep /\ HasStage'
    BY <2>1, RemovedType DEF RemoveFile, Put, Goto, Stage
  <2>2. /\ disk' \in [File -> Content] /\ copy' \in Stage /\ Keep /\ HasStage'
        /\ \/ pc = "clearTmp" /\ pc' = "writeTmp"
           \/ pc = "clearTorn" /\ pc' = "fallback"
           \/ pc = "clearPrimary" /\ pc' = "restore"
           \/ pc' \in {"toBak", "failed", "repair", "dropOldTmp", "saved"}
    BY <1>7, <2>1 DEF DropStep, Step, Write, File
  <2> QED
    BY <2>2 DEF Step, Write
<1>8. CASE CheckPrimary
  <2>1. hadPrimary' \in BOOLEAN
    BY <1>8 DEF CheckPrimary, Exists
  <2>2. pc' \in {"clearBak", "toPrimary"} /\ copy' = "no"
    BY <1>8 DEF CheckPrimary, Goto
  <2> QED
    BY <1>8, <2>1, <2>2 DEF CheckPrimary, Step, Stage, Write
<1>9. CASE UndoCheck
  BY <1>9 DEF UndoCheck, Goto, Step, Stage, Write
<1>10. CASE Verify
  BY <1>10 DEF Verify, Goto, Step, Stage, Write
<1>11. CASE WriteSaved
  BY <1>11 DEF WriteSaved, LoadReturns, Goto, Step, Stage
<1>12. CASE WriteFailed
  BY <1>12 DEF WriteFailed, LoadReturns, Goto, Step, Stage
<1>13. CASE Crash
  BY <1>13 DEF Crash, Goto, Step, Stage, Empty, Content
<1>14. CASE UNCHANGED vars
  BY <1>14 DEF vars
<1> QED
  BY <1>1, <1>2, <1>3, <1>4, <1>5, <1>6, <1>7, <1>8, <1>9, <1>10, <1>11, <1>12,
     <1>13, <1>14 DEF Next

(* Every document, snapshot and flag stays of its kind, whatever SD calls   *)
(* fail and whenever the power is cut (JournalFile!TypeOK).                 *)
THEOREM Typing == Spec => []TypeOK
<1>1. TypeInv => TypeOK
  BY DEF TypeInv
<1> QED
  BY <1>1, InitTypeInv, TypeStep, PTL DEF Spec

-----------------------------------------------------------------------------
(* Which documents the files stand for.                                     *)
LEMMA RecoverableIsBase ==
  ASSUME NEW d, ~Valid(d.tmp)
  PROVE  Recoverable(d) = Base(d)
BY DEF Recoverable, decideLoad, Base

LEMMA PrimaryWins ==
  ASSUME NEW d, Valid(d.primary)
  PROVE  Recoverable(d) = d.primary /\ Base(d) = d.primary
BY DEF Recoverable, decideLoad, Base

LEMMA TmpNext ==
  ASSUME NEW d, ~Valid(d.primary), Valid(d.tmp)
  PROVE  Recoverable(d) = d.tmp
BY DEF Recoverable, decideLoad

LEMMA BaseOf ==
  ASSUME NEW c, NEW d, c.primary = d.primary, c.bak = d.bak
  PROVE  Base(c) = Base(d)
BY DEF Base

(* Neither absent nor torn files are documents. *)
LEMMA NotDocuments == ~Valid(Absent) /\ ~Valid(Torn) /\ Nothing \notin Bodies
BY SdFileAssumption DEF Valid

-----------------------------------------------------------------------------
(* Calls that never fail leave one outcome. *)
LEMMA OnlyOpenAndWriteFail ==
  ASSUME faults \subseteq {"open", "write"}
  PROVE  /\ \A c : Removed(c) = {Absent} /\ ReadResult(c) = {c}
         /\ ~MayFail("rename") /\ ~MayFail("read")
BY DEF Removed, ReadResult, MayFail

LEMMA InitJournalInv == Init => JournalInv
<1> SUFFICES ASSUME Init PROVE JournalInv
  OBVIOUS
<1>1. TypeOK
  BY InitTypeInv DEF TypeInv
<1>2. ~Valid(disk.primary) /\ ~Valid(disk.tmp) /\ ~Valid(disk.bak)
  BY NotDocuments DEF Init, Empty, File
<1>3. Recoverable(disk) = Nothing /\ Base(disk) = Nothing
  BY <1>2, RecoverableIsBase DEF Base
<1> QED
  BY <1>1, <1>3, SdFileAssumption
     DEF Init, JournalInv, Held, Places, Protocol, Repair, Allowed, Writing, RenameRefusedOnly,
         CallFailedOnly, Empty, File

(* With these faults every rename of the protocol finds its source and no   *)
(* target, so that only the tmp is ever written byte by byte.               *)
LEMMA RenameAccepted ==
  ASSUME JournalInv, faults \subseteq {"open", "write"}
  PROVE  ~RenameRefused /\ ~UnlinkSource
<1> SUFFICES ASSUME pc \in Write, copy = "no"
             PROVE  CanRename(disk[Src[pc]], disk[Dst[pc]])
  BY OnlyOpenAndWriteFail DEF RenameRefused, UnlinkSource, JournalInv, Places
<1>1. pc \in {"toBak", "toPrimary", "fallback", "restore"}
  BY DEF JournalInv, Places, RenameRefusedOnly, Write
<1> QED
  BY <1>1, Rows, SdFileAssumption
     DEF JournalInv, Held, Protocol, Repair, Writing, CanRename, Exists, Valid

-----------------------------------------------------------------------------
(* The steps, group by group.                                               *)
LEMMA DropStepInv ==
  ASSUME TypeInv, JournalInv, faults \subseteq {"open", "write"}, UNCHANGED faults,
         DropStep, TypeOK'
  PROVE  JournalInv'
<1>1. ASSUME NEW at, NEW f \in File, NEW next, RemoveFile(at, f, next)
      PROVE  /\ pc = at /\ pc' = next
             /\ copy' = IF next = "writeTmp" THEN "clear" ELSE "no"
             /\ disk' = [disk EXCEPT ![f] = Absent]
             /\ UNCHANGED <<op, writing, snap, body, hadPrimary, result, offered, possible>>
  BY <1>1, OnlyOpenAndWriteFail DEF RemoveFile, Put, Goto, Keep, store
<1> USE OnlyOpenAndWriteFail, NotDocuments, SdFileAssumption
    DEF JournalInv, Held, Places, Protocol, Repair, Writing, RenameRefusedOnly, CallFailedOnly
<1>2. CASE RemoveFile("clearTmp", "tmp", "writeTmp")
  <2>1. /\ pc = "clearTmp" /\ pc' = "writeTmp" /\ copy' = "clear"
        /\ disk' = [disk EXCEPT !.tmp = Absent]
        /\ UNCHANGED <<op, writing, snap, body, hadPrimary, result, offered, possible>>
    BY <1>1, <1>2 DEF File
  <2>2. disk'.tmp = Absent /\ disk'.primary = disk.primary /\ disk'.bak = disk.bak
    BY <2>1 DEF TypeInv, TypeOK, File
  <2>3. Recoverable(disk') = Base(disk) /\ Base(disk') = Base(disk)
    BY <2>2, RecoverableIsBase, BaseOf
  <2> QED
    BY <2>1, <2>2, <2>3 DEF Allowed
<1>3. CASE RemoveFile("clearBak", "bak", "toBak")
  <2>1. /\ pc = "clearBak" /\ pc' = "toBak" /\ copy' = "no"
        /\ disk' = [disk EXCEPT !.bak = Absent]
        /\ UNCHANGED <<op, writing, snap, body, hadPrimary, result, offered, possible>>
    BY <1>1, <1>3 DEF File
  <2>2. disk'.bak = Absent /\ disk'.primary = disk.primary /\ disk'.tmp = disk.tmp
    BY <2>1 DEF TypeInv, TypeOK, File
  <2>3. Valid(disk.primary)
    BY <2>1 DEF TypeInv, TypeOK, File, Content, Exists, Valid
  <2>4. Recoverable(disk') = Recoverable(disk) /\ Base(disk') = Base(disk)
    BY <2>2, <2>3, PrimaryWins
  <2> QED
    BY <2>1, <2>2, <2>4 DEF Allowed, Exists
<1>4. CASE RemoveFile("dropOldBak", "bak", "dropOldTmp")
  <2>1. /\ pc = "dropOldBak" /\ pc' = "dropOldTmp" /\ copy' = "no"
        /\ disk' = [disk EXCEPT !.bak = Absent]
        /\ UNCHANGED <<op, writing, snap, body, hadPrimary, result, offered, possible>>
    BY <1>1, <1>4 DEF File
  <2>2. disk'.bak = Absent /\ disk'.primary = disk.primary /\ disk'.tmp = disk.tmp
    BY <2>1 DEF TypeInv, TypeOK, File
  <2>3. Recoverable(disk') = Recoverable(disk) /\ Base(disk') = Base(disk)
    BY <2>1, <2>2, PrimaryWins DEF Valid
  <2> QED
    BY <2>1, <2>2, <2>3 DEF Allowed
<1>5. CASE RemoveFile("dropOldTmp", "tmp", "saved")
  <2>1. /\ pc = "dropOldTmp" /\ pc' = "saved" /\ copy' = "no"
        /\ disk' = [disk EXCEPT !.tmp = Absent]
        /\ UNCHANGED <<op, writing, snap, body, hadPrimary, result, offered, possible>>
    BY <1>1, <1>5 DEF File
  <2>2. disk'.tmp = Absent /\ disk'.primary = disk.primary /\ disk'.bak = disk.bak
    BY <2>1 DEF TypeInv, TypeOK, File
  <2>3. Recoverable(disk') = Base(disk) /\ Base(disk') = Base(disk)
    BY <2>2, RecoverableIsBase, BaseOf
  <2> QED
    BY <2>1, <2>2, <2>3 DEF Allowed
<1>6. ASSUME NEW at \in {"clearTorn", "clearPrimary"}, NEW next \in {"fallback", "restore"},
             at = "clearTorn" <=> next = "fallback", RemoveFile(at, "primary", next)
      PROVE  JournalInv'
  <2>1. /\ pc = at /\ pc' = next /\ copy' = "no"
        /\ disk' = [disk EXCEPT !.primary = Absent]
        /\ UNCHANGED <<op, writing, snap, body, hadPrimary, result, offered, possible>>
    BY <1>1, <1>6 DEF File
  <2>2. disk' = disk
    BY <1>6, <2>1 DEF TypeInv, TypeOK, File, Exists
  <2> QED
    BY <1>6, <2>1, <2>2 DEF Allowed
<1>7. ~RemoveFile("dropNew", "tmp", "failed") /\ ~RemoveFile("clearBad", "primary", "repair")
  BY DEF RemoveFile
<1> QED
  BY <1>2, <1>3, <1>4, <1>5, <1>6, <1>7 DEF DropStep

LEMMA WriteStepInv ==
  ASSUME TypeInv, JournalInv, faults \subseteq {"open", "write"}, UNCHANGED faults,
         WriteStep, TypeOK'
  PROVE  JournalInv'
<1> USE OnlyOpenAndWriteFail, NotDocuments, SdFileAssumption
    DEF JournalInv, Held, Places, Protocol, Repair, Writing, RenameRefusedOnly, CallFailedOnly
<1>1. UNCHANGED <<op, writing, snap, body, hadPrimary, result, offered, possible>>
  BY DEF WriteStep, RenameFile, RenameRefused, ClearTarget, OpenTarget, FillTarget,
         UnlinkSource, Keep, store
<1>2. CASE RenameFile
  <2>1. /\ pc \in {"toBak", "toPrimary", "fallback", "restore"} /\ pc' = OnOk[pc] /\ copy' = "no"
    BY <1>2, Rows DEF RenameFile, Goto, Write
  <2>2. CASE pc = "toBak"
    <3>1. /\ pc' = "toPrimary" /\ disk'.primary = Absent /\ disk'.tmp = disk.tmp
          /\ disk'.bak = disk.primary
      BY <1>2, <2>1, <2>2, Rows DEF RenameFile, TypeInv, TypeOK, File
    <3>2. Valid(disk.primary) /\ Valid(disk.tmp)
      BY <2>2 DEF TypeInv, TypeOK, File, Content, Exists, Valid
    <3>3. Base(disk') = Base(disk) /\ Recoverable(disk') = body
      BY <2>2, <3>1, <3>2, TmpNext DEF Base
    <3> QED
      BY <1>1, <2>1, <2>2, <3>1, <3>2, <3>3 DEF Allowed, Exists, Valid
  <2>3. CASE pc = "toPrimary"
    <3>1. /\ pc' = "verify" /\ disk'.primary = disk.tmp /\ disk'.tmp = Absent
          /\ disk'.bak = disk.bak
      BY <1>2, <2>1, <2>3, Rows DEF RenameFile, TypeInv, TypeOK, File
    <3>2. Base(disk') = body /\ Recoverable(disk') = body
      BY <2>3, <3>1, PrimaryWins DEF Valid
    <3> QED
      BY <1>1, <2>1, <2>3, <3>1, <3>2 DEF Allowed, Exists, Valid
  <2>4. CASE pc \in {"fallback", "restore"}
    <3>1. /\ disk'.primary = disk.bak /\ disk'.tmp = disk.tmp /\ disk'.bak = Absent
          /\ pc' = IF pc = "fallback" THEN "returnBak" ELSE "dropTmp"
      BY <1>2, <2>1, <2>4, Rows DEF RenameFile, TypeInv, TypeOK, File
    <3>2. Valid(disk.bak) /\ ~Valid(disk.primary)
      BY <2>4 DEF Exists, Valid
    <3>3. Base(disk') = Base(disk) /\ Recoverable(disk') = Base(disk)
      BY <3>1, <3>2, PrimaryWins DEF Base
    <3>4. pc = "restore" => Recoverable(snap) = disk.bak
      BY <2>4, RecoverableIsBase DEF Base
    <3> QED
      BY <1>1, <2>1, <2>4, <3>1, <3>2, <3>3, <3>4 DEF Allowed, Exists
  <2> QED
    BY <2>1, <2>2, <2>3, <2>4
<1>3. ASSUME NEW c \in {Absent, Torn}, pc = "writeTmp", disk' = [disk EXCEPT !.tmp = c],
             \/ pc' = "writeTmp" /\ copy' \in {"clear", "open", "fill"}
             \/ pc' = "failed" /\ copy' = "no" /\ faults # {}
      PROVE  JournalInv'
  <2>1. disk'.tmp = c /\ disk'.primary = disk.primary /\ disk'.bak = disk.bak
    BY <1>3 DEF TypeInv, TypeOK, File
  <2>2. ~Valid(disk'.tmp)
    BY <1>3, <2>1
  <2>3. Base(disk') = Base(disk)
    BY <2>1, BaseOf
  <2>4. Recoverable(disk') = Base(disk)
    BY <2>2, <2>3, RecoverableIsBase
  <2> QED
    BY <1>1, <1>3, <2>1, <2>3, <2>4 DEF Allowed
<1>4. CASE ClearTarget
  <2>1. pc = "writeTmp" /\ Dst[pc] = "tmp" /\ pc' = pc /\ copy' = "open"
    BY <1>4, Rows DEF ClearTarget
  <2>2. PICK c \in Removed(disk[Dst[pc]]) : Put(Dst[pc], c)
    BY <1>4 DEF ClearTarget
  <2>3. c = Absent
    BY <2>2
  <2>4. disk' = [disk EXCEPT !.tmp = Absent]
    BY <2>1, <2>2, <2>3 DEF Put
  <2> QED
    BY <1>3, <2>1, <2>4
<1>5. CASE OpenTarget
  <2>1. pc = "writeTmp" /\ Dst[pc] = "tmp" /\ OnFail[pc] = "failed"
    BY <1>5, Rows DEF OpenTarget
  <2>2. CASE Put(Dst[pc], Torn) /\ pc' = pc /\ copy' = "fill"
    BY <1>3, <2>1, <2>2 DEF Put
  <2>3. CASE MayFail("open") /\ Goto(OnFail[pc]) /\ UNCHANGED disk
    <3>1. pc' = "failed" /\ copy' = "no" /\ disk' = disk /\ faults # {}
      BY <2>1, <2>3 DEF Goto, MayFail
    <3> QED
      BY <1>1, <2>1, <3>1 DEF Allowed
  <2> QED
    BY <1>5, <2>2, <2>3 DEF OpenTarget
<1>6. CASE FillTarget
  <2>1. /\ pc = "writeTmp" /\ Src[pc] = "ram" /\ Dst[pc] = "tmp" /\ Buffer = body
        /\ OnOk[pc] = "checkPrimary" /\ OnFail[pc] = "failed"
    BY <1>6, Rows DEF FillTarget, Buffer
  <2>2. CASE Put("tmp", body) /\ Goto("checkPrimary")
    <3>1. /\ disk'.tmp = body /\ disk'.primary = disk.primary /\ disk'.bak = disk.bak
          /\ pc' = "checkPrimary" /\ copy' = "no"
      BY <2>2 DEF Put, Goto, TypeInv, TypeOK, File
    <3>2. Base(disk') = Base(disk) /\ Recoverable(disk') \in {Base(disk), body}
      BY <2>1, <3>1, BaseOf, PrimaryWins, TmpNext DEF Valid
    <3> QED
      BY <1>1, <2>1, <3>1, <3>2 DEF Allowed
  <2>3. CASE MayFail("write") /\ Put("tmp", Absent) /\ Goto("failed")
    BY <1>3, <2>1, <2>3 DEF Put, Goto, MayFail
  <2> QED
    BY <1>6, <2>1, <2>2, <2>3 DEF FillTarget
<1> QED
  BY <1>2, <1>4, <1>5, <1>6, RenameAccepted DEF WriteStep

LEMMA LoadStepInv ==
  ASSUME TypeInv, JournalInv, faults \subseteq {"open", "write"}, UNCHANGED faults,
         TypeOK',
         \/ \E kind \in {"load", "update"} : BeginLoad(kind)
         \/ ReadFiles \/ DropStaleTmp \/ ReturnBak
  PROVE  JournalInv'
<1> USE OnlyOpenAndWriteFail, NotDocuments, SdFileAssumption
    DEF JournalInv, Held, Places, Protocol, Repair, Writing, RenameRefusedOnly, CallFailedOnly
<1>1. ASSUME NEW kind \in {"load", "update"}, BeginLoad(kind) PROVE JournalInv'
  BY <1>1 DEF BeginLoad, Goto, store, Allowed
<1>2. CASE ReadFiles
  <2>1. snap' = disk /\ disk' = disk
    <3>1. snap' \in [File -> Content] /\ \A f \in File : snap'[f] = disk[f]
      BY <1>2 DEF ReadFiles
    <3> QED
      BY <1>2, <3>1 DEF ReadFiles, TypeInv, TypeOK
  <2>2. CASE decideLoad(disk) = "Primary" /\ Goto("dropTmp") /\ UNCHANGED <<body, writing, result, store>>
    <3>1. Valid(disk.primary) /\ Recoverable(disk) = disk.primary
      BY <2>2 DEF decideLoad, Recoverable
    <3> QED
      BY <2>1, <2>2, <3>1 DEF Goto, store, Allowed
  <2>3. CASE decideLoad(disk) = "Tmp" /\ StartWrite(disk.tmp, "load") /\ UNCHANGED <<result, store>>
    <3>1. ~Valid(disk.primary) /\ Valid(disk.tmp) /\ Recoverable(disk) = disk.tmp
      BY <2>3 DEF decideLoad, Recoverable
    <3>2. ~Exists(disk.primary)
      BY <3>1 DEF TypeInv, TypeOK, File, Content, Exists, Valid
    <3> QED
      BY <2>1, <2>3, <3>1, <3>2 DEF StartWrite, Goto, store, Allowed, Valid
  <2>4. CASE decideLoad(disk) = "Bak" /\ Goto("clearPrimary") /\ UNCHANGED <<body, writing, result, store>>
    <3>1. ~Valid(disk.primary) /\ ~Valid(disk.tmp) /\ Valid(disk.bak)
      BY <2>4 DEF decideLoad
    <3>2. ~Exists(disk.primary)
      BY <3>1 DEF TypeInv, TypeOK, File, Content, Exists, Valid
    <3> QED
      BY <2>1, <2>4, <3>1, <3>2 DEF Goto, store, Allowed
  <2>5. CASE decideLoad(disk) = "None" /\ LoadReturns(Nothing) /\ UNCHANGED <<body, writing>>
    <3>1. Recoverable(disk) = Nothing /\ Base(disk) = Nothing
      BY <2>5 DEF decideLoad, Recoverable, Base
    <3> QED
      BY <2>1, <2>5, <3>1 DEF LoadReturns, Goto, Allowed
  <2> QED
    BY <1>2, <2>1, <2>2, <2>3, <2>4, <2>5 DEF ReadFiles
<1>3. CASE DropStaleTmp
  <2>1. pc = "dropTmp" /\ Valid(disk.primary) /\ LoadReturns(disk.primary)
    BY <1>3 DEF DropStaleTmp
  <2>2. disk'.primary = disk.primary /\ disk'.bak = disk.bak
    BY <1>3 DEF DropStaleTmp, Put, TypeInv, TypeOK, File
  <2>3. Recoverable(disk') = disk.primary /\ Base(disk') = disk.primary
    BY <2>1, <2>2, PrimaryWins
  <2>4. disk.primary \in Allowed /\ disk.primary \in Allowed'
    BY <2>1, PrimaryWins DEF Allowed, LoadReturns
  <2> QED
    BY <2>1, <2>2, <2>3, <2>4 DEF LoadReturns, Goto
<1>4. CASE ReturnBak
  <2>1. pc = "returnBak" /\ faults # {} /\ disk' = disk /\ offered' = offered
    BY <1>4 DEF ReturnBak, LoadReturns
  <2>2. Allowed = offered /\ Allowed' = offered
    BY <2>1 DEF Allowed
  <2> QED
    BY <1>4, <2>1, <2>2 DEF ReturnBak, LoadReturns, Goto
<1> QED
  BY <1>1, <1>2, <1>3, <1>4

LEMMA SaveStepInv ==
  ASSUME TypeInv, JournalInv, faults \subseteq {"open", "write"}, UNCHANGED faults,
         TypeOK',
         \/ \E b \in Bodies : Save(b)
         \/ CheckPrimary \/ UndoCheck \/ Verify \/ WriteSaved \/ WriteFailed \/ Crash
  PROVE  JournalInv'
<1> USE OnlyOpenAndWriteFail, NotDocuments, SdFileAssumption
    DEF JournalInv, Held, Places, Protocol, Repair, Writing, RenameRefusedOnly, CallFailedOnly
<1>1. ASSUME NEW b \in Bodies, Save(b) PROVE JournalInv'
  <2>1. Allowed' = Allowed \cup {b}
    BY <1>1 DEF Save, Allowed
  <2> QED
    BY <1>1, <2>1 DEF Save, StartWrite, Goto
<1>2. CASE CheckPrimary
  <2>1. /\ pc = "checkPrimary" /\ disk' = disk /\ copy' = "no"
        /\ pc' = IF Exists(disk.primary) THEN "clearBak" ELSE "toPrimary"
        /\ UNCHANGED <<writing, snap, body, offered, possible>>
    BY <1>2 DEF CheckPrimary, Goto, store
  <2> QED
    BY <2>1 DEF Allowed
<1>3. CASE UndoCheck
  BY <1>3 DEF UndoCheck
<1>4. CASE Verify
  <2>1. pc = "verify" /\ pc' = "dropOldBak" /\ copy' = "no" /\ disk' = disk
    BY <1>4 DEF Verify, Goto, Valid
  <2> QED
    BY <1>4, <2>1 DEF Verify, Keep, store, Allowed
<1>5. CASE WriteSaved
  <2>1. pc = "saved" /\ disk' = disk /\ Recoverable(disk) = body /\ Base(disk) = body
    BY <1>5, PrimaryWins DEF WriteSaved, Valid
  <2>2. CASE writing = "save" /\ offered' = {body} /\ possible' = {body} /\ Goto("idle")
    BY <2>1, <2>2 DEF Goto, Allowed
  <2>3. CASE writing = "load" /\ LoadReturns(body)
    BY <2>1, <2>3 DEF LoadReturns, Goto, Allowed
  <2> QED
    BY <1>5, <2>2, <2>3 DEF WriteSaved
<1>6. CASE WriteFailed
  <2>1. /\ pc = "failed" /\ faults # {} /\ offered' = offered /\ copy' = "no"
        /\ UNCHANGED <<disk, writing, snap, body>>
    BY <1>6 DEF WriteFailed, LoadReturns, Goto, store
  <2>2. Allowed = offered /\ Allowed' = offered
    BY <2>1 DEF Allowed
  <2>3. \/ pc' \in {"idle", "loaded"}
        \/ pc' = "clearTorn" /\ writing = "load" /\ Valid(snap.bak)
    BY <1>6 DEF WriteFailed, LoadReturns, Goto
  <2> QED
    BY <2>1, <2>2, <2>3
<1>7. CASE Crash
  BY <1>7 DEF Crash, Goto, store, Allowed
<1> QED
  BY <1>1, <1>2, <1>3, <1>4, <1>5, <1>6, <1>7

LEMMA StepJournalInv ==
  ASSUME faults \subseteq {"open", "write"}
  PROVE  TypeInv /\ JournalInv /\ [Next]_vars => JournalInv'
<1> SUFFICES ASSUME TypeInv, JournalInv, [Next]_vars PROVE JournalInv'
  OBVIOUS
<1>1. TypeOK' /\ UNCHANGED faults
  BY TypeStep, FateTypes DEF TypeInv, TypeOK
<1>2. CASE UNCHANGED vars
  BY <1>1, <1>2 DEF vars, store, JournalInv, Held, Places, Protocol, Repair, Allowed
<1>3. CASE DropStep
  BY <1>1, <1>3, DropStepInv
<1>4. CASE WriteStep
  BY <1>1, <1>4, WriteStepInv
<1>5. CASE \/ \E kind \in {"load", "update"} : BeginLoad(kind)
           \/ ReadFiles \/ DropStaleTmp \/ ReturnBak
  BY <1>1, <1>5, LoadStepInv
<1>6. CASE \/ \E b \in Bodies : Save(b)
           \/ CheckPrimary \/ UndoCheck \/ Verify \/ WriteSaved \/ WriteFailed \/ Crash
  BY <1>1, <1>6, SaveStepInv
<1> QED
  BY <1>2, <1>3, <1>4, <1>5, <1>6 DEF Next

(* Whatever the card does to other calls, the protocol's inductive          *)
(* invariant holds while only opens and writes fail (JournalFile!-          *)
(* ProtocolKept).                                                           *)
THEOREM Protected == Spec => []ProtocolKept
<1> DEFINE IInv == TypeInv /\ ProtocolKept
<1>1. Init => IInv
  BY InitTypeInv, InitJournalInv DEF ProtocolKept
<1>2. IInv /\ [Next]_vars => IInv'
  <2> SUFFICES ASSUME IInv, [Next]_vars PROVE IInv'
    OBVIOUS
  <2>1. TypeInv' /\ UNCHANGED faults
    BY TypeStep, FateTypes DEF TypeInv, TypeOK
  <2>2. faults \subseteq {"open", "write"} => JournalInv'
    BY StepJournalInv DEF ProtocolKept
  <2> QED
    BY <2>1, <2>2 DEF ProtocolKept
<1> QED
  BY <1>1, <1>2, PTL DEF Spec

(* A document that a save reported written survives power cuts and a full   *)
(* card (opens and writes that fail): the next load finds it, or one whose  *)
(* save was begun after it (durableWriteJournal, loadReconciledRaw).        *)
THEOREM SaveSafe ==
  ASSUME \A f \in Fates : f.faults \subseteq {"open", "write"}
  PROVE  Spec => []SaveDurable
<1>1. TypeOK => faults \subseteq {"open", "write"}
  BY DEF TypeOK, FateOK
<1>2. TypeOK /\ ProtocolKept => SaveDurable
  BY <1>1 DEF ProtocolKept, JournalInv, Held, Allowed, SaveDurable, TypeOK
<1> QED
  BY <1>2, Typing, Protected, PTL

(* When only the power can fail, a document that a load has shown is not    *)
(* lost or undone either (durableWriteJournal, loadReconciledRaw).          *)
THEOREM Safe ==
  ASSUME \A f \in Fates : f.faults = {}
  PROVE  Spec => []Durable
<1>1. TypeOK => faults = {}
  BY DEF TypeOK, FateOK
<1>2. TypeOK /\ ProtocolKept => Durable
  BY <1>1 DEF ProtocolKept, JournalInv, Held, Allowed, Durable
<1> QED
  BY <1>2, Typing, Protected, PTL
-----------------------------------------------------------------------------
(* When only the power can fail, the journal file implements DurableCell:   *)
(* each of its steps moves the document the store holds between documents   *)
(* on offer, offers a new one, settles on the one it holds, or stutters.    *)

LEMMA InitCell == Init => Cell!Init
<1> SUFFICES ASSUME Init PROVE Cell!Init
  OBVIOUS
<1>1. ~Valid(disk.primary) /\ ~Valid(disk.tmp) /\ ~Valid(disk.bak)
  BY NotDocuments DEF Init, Empty, File
<1>2. Recoverable(disk) = Nothing
  BY <1>1 DEF Recoverable, decideLoad
<1> QED
  BY <1>2 DEF Init, Cell!Init, CellHeld, CellOffered

(* A load or a save that returns v settles on v, if the store holds v. *)
LEMMA SettleStep ==
  ASSUME NEW v, v = Recoverable(disk), v \in possible,
         Recoverable(disk') = v, possible' = {v}, faults = {}, faults' = {}
  PROVE  Cell!Settle
BY DEF Cell!Settle, CellHeld, CellOffered

LEMMA MoveStep ==
  ASSUME JournalInv', faults = {}, faults' = {}, UNCHANGED possible
  PROVE  Cell!Move
BY DEF JournalInv, Held, Allowed, Cell!Move, CellHeld, CellOffered

LEMMA StepCell ==
  ASSUME TypeInv, JournalInv, JournalInv', faults = {}, faults' = {}, [Next]_vars
  PROVE  [Cell!Next]_<<CellHeld, CellOffered>>
<1> USE DEF Cell!Next
<1>1. CASE UNCHANGED possible
  BY <1>1, MoveStep
<1>2. ASSUME NEW b \in Bodies, Save(b) PROVE Cell!Offer(b)
  BY <1>2 DEF Save, Cell!Offer, CellHeld, CellOffered
<1>3. CASE ReadFiles /\ ~UNCHANGED possible
  <2>1. snap' = disk /\ disk' = disk
    <3>1. snap' \in [File -> Content] /\ \A f \in File : snap'[f] = disk[f]
      BY <1>3, OnlyOpenAndWriteFail DEF ReadFiles
    <3> QED
      BY <1>3, <3>1 DEF ReadFiles, TypeInv, TypeOK
  <2>2. decideLoad(disk) = "None" /\ LoadReturns(Nothing)
    BY <1>3, <2>1 DEF ReadFiles, store
  <2>3. Recoverable(disk) = Nothing
    BY <2>2 DEF decideLoad, Recoverable
  <2>4. Nothing \in possible
    BY <2>3 DEF JournalInv, Held, Allowed
  <2> QED
    BY <2>1, <2>2, <2>3, <2>4, SettleStep DEF LoadReturns
<1>4. CASE DropStaleTmp
  <2>1. Valid(disk.primary) /\ LoadReturns(disk.primary)
    BY <1>4 DEF DropStaleTmp, JournalInv, Repair
  <2>2. disk'.primary = disk.primary
    BY <1>4 DEF DropStaleTmp, Put, TypeInv, TypeOK, File
  <2>3. Recoverable(disk) = disk.primary /\ Recoverable(disk') = disk.primary
    BY <2>1, <2>2, PrimaryWins
  <2>4. disk.primary \in possible
    BY <2>3 DEF JournalInv, Held, Allowed
  <2> QED
    BY <2>1, <2>3, <2>4, SettleStep DEF LoadReturns
<1>5. CASE WriteSaved
  <2>1. body \in Bodies /\ body \in possible /\ disk.primary = body /\ disk' = disk
    BY <1>5 DEF WriteSaved, JournalInv, Held, Protocol, Writing, Allowed
  <2>2. Recoverable(disk) = body /\ Recoverable(disk') = body
    BY <2>1, PrimaryWins DEF Valid
  <2>3. possible' = {body}
    BY <1>5, <2>1 DEF WriteSaved, LoadReturns
  <2> QED
    BY <2>1, <2>2, <2>3, SettleStep
<1>6. ~ReturnBak /\ ~WriteFailed
  BY DEF ReturnBak, WriteFailed, JournalInv, Places, CallFailedOnly
<1>7. \/ \E b \in Bodies : Save(b)
      \/ ReadFiles \/ DropStaleTmp \/ WriteSaved
      \/ UNCHANGED possible
  <2>1. ASSUME NEW kind \in {"load", "update"}, BeginLoad(kind) PROVE UNCHANGED possible
    BY <2>1 DEF BeginLoad, store
  <2>2. CASE WriteStep
    BY <2>2 DEF WriteStep, RenameFile, RenameRefused, ClearTarget, OpenTarget, FillTarget,
                UnlinkSource, Keep, store
  <2>3. CASE DropStep
    BY <2>3 DEF DropStep, RemoveFile, Keep, store
  <2>4. CASE CheckPrimary \/ UndoCheck \/ Verify \/ Crash
    BY <2>4 DEF CheckPrimary, UndoCheck, Verify, Crash, Keep, store
  <2>5. CASE UNCHANGED vars
    BY <2>5 DEF vars, store
  <2> QED
    BY <1>6, <2>1, <2>2, <2>3, <2>4, <2>5 DEF Next
<1> QED
  BY <1>1, <1>2, <1>3, <1>4, <1>5, <1>7

(* On a card where only the power can fail, the journal file is a durable   *)
(* store: loads and saves report and settle the document that a later load  *)
(* returns (durableWriteJournal, loadReconciledRaw; ImplementsCell).        *)
THEOREM Implements == Spec => ImplementsCell
<1> DEFINE IInv == TypeInv /\ ProtocolKept
<1>1. Init => IInv /\ Cell!Init
  BY InitTypeInv, InitJournalInv, InitCell DEF ProtocolKept
<1>2. IInv /\ [Next]_vars => IInv' /\ [Cell!Next]_<<CellHeld, CellOffered>>
  <2> SUFFICES ASSUME IInv, [Next]_vars PROVE IInv' /\ [Cell!Next]_<<CellHeld, CellOffered>>
    OBVIOUS
  <2>1. TypeInv' /\ UNCHANGED faults
    BY TypeStep, FateTypes DEF TypeInv, TypeOK
  <2>2. faults \subseteq {"open", "write"} => JournalInv'
    BY StepJournalInv DEF ProtocolKept
  <2>3. CASE faults = {}
    BY <2>1, <2>2, <2>3, StepCell DEF ProtocolKept
  <2>4. CASE faults # {}
    BY <2>1, <2>2, <2>4 DEF ProtocolKept, CellHeld, CellOffered
  <2> QED
    BY <2>3, <2>4
<1> QED
  BY <1>1, <1>2, PTL DEF Spec, ImplementsCell, Cell!Spec
-----------------------------------------------------------------------------

(* The file's part of a request's step is a step of the file protocol.      *)
LEMMA NewListsType ==
  ASSUME JTypeOK, NEW b \in NewLists(call, Records(result))
  PROVE  b \in Bodies
BY InstallJournalAssumption DEF JTypeOK, Request, NewLists, Records

LEMMA FileStep ==
  ASSUME JTypeOK, [JNext]_jvars
  PROVE  [Next]_vars
<1>1. ASSUME NEW c \in Request, Ask(c) PROVE Next
  BY <1>1 DEF Ask, Next
<1>2. CASE SaveList
  <2>1. PICK b \in NewLists(call, Records(result)) : Save(b)
    BY <1>2 DEF SaveList
  <2> QED
    BY <2>1, NewListsType DEF Next
<1>3. CASE Report
  BY <1>3 DEF Report, Next
<1>4. CASE Work
  BY <1>4 DEF Work, Next
<1> QED
  BY <1>1, <1>2, <1>3, <1>4 DEF JNext, jvars

LEMMA InitJTypes == JInit => JTypeOK /\ TypeInv
BY InitTypeInv DEF JInit, JTypeOK, TypeInv, Request

LEMMA JTypeStep == JTypeOK /\ TypeInv /\ [JNext]_jvars => (JTypeOK /\ TypeInv)'
<1> SUFFICES ASSUME JTypeOK, TypeInv, [JNext]_jvars PROVE (JTypeOK /\ TypeInv)'
  OBVIOUS
<1>1. TypeInv'
  BY FileStep, TypeStep
<1>2. call' \in Request /\ kept' \subseteq Ids
  <2>1. ASSUME NEW c \in Request, Ask(c) PROVE call' \in Request /\ kept' \subseteq Ids
    BY <2>1 DEF Ask, JTypeOK
  <2>2. CASE SaveList
    BY <2>2 DEF SaveList, JTypeOK
  <2>3. CASE Report
    BY <2>3 DEF Report, JTypeOK, Request
  <2>4. CASE Work \/ UNCHANGED jvars
    BY <2>4 DEF Work, jvars, JTypeOK
  <2> QED
    BY <2>1, <2>2, <2>3, <2>4 DEF JNext
<1> QED
  BY <1>1, <1>2 DEF JTypeOK, TypeInv

(* Requests, records and files stay of their kinds, whatever calls fail and *)
(* wherever the power is cut (InstallJournal!JTypeOK).                      *)
THEOREM JTyping == JSpec => []JTypeOK
BY InitJTypes, JTypeStep, PTL DEF JSpec

(* Serving upserts, removals and recoveries one after the other, the        *)
(* journal file is used as its protocol allows, so all that is proved of    *)
(* JournalFile!Spec holds of the list's file (M4xInstallJournal.cpp         *)
(* 275-304: each request begins with a load and ends with one save).        *)
THEOREM JournalUse == JSpec => Spec
<1>1. JInit => Init
  BY DEF JInit
<1> QED
  BY <1>1, FileStep, InitJTypes, JTypeStep, PTL DEF JSpec, Spec

-----------------------------------------------------------------------------
(* Why no reported record is lost: the records kept are in every document   *)
(* that a later load may return, hence in the list a request loads and in   *)
(* the one it saves.                                                        *)
KeptInv ==
  /\ \A d \in Allowed : kept \subseteq Records(d)
  /\ pc = "loaded" => result \in Allowed
  /\ pc = "failed" => body \in Allowed
  /\ pc = "returnBak" => snap.bak \in Allowed
  /\ call.kind = "remove" => call.id \notin kept
  /\ pc \in Writing /\ writing = "save" /\ call.kind = "upsert" => call.id \in body

FileInv == JTypeOK /\ TypeInv /\ JournalInv /\ faults \subseteq {"open", "write"}

LEMMA InitKept == JInit => KeptInv
BY DEF JInit, Init, KeptInv, Writing

(* A load that returns a document on offer leaves it, or more, on offer.    *)
LEMMA ReturnsAllowed ==
  ASSUME NEW v \in Allowed, LoadReturns(v), UNCHANGED faults
  PROVE  /\ Allowed' \subseteq Allowed /\ result' \in Allowed'
         /\ pc' \in {"idle", "loaded"}
BY DEF Allowed, LoadReturns, Goto

LEMMA AskKept ==
  ASSUME FileInv, KeptInv, UNCHANGED faults, NEW c \in Request, Ask(c)
  PROVE  KeptInv'
<1>1. /\ pc' = "read" /\ call' = c /\ UNCHANGED <<offered, possible>>
      /\ kept' = IF c.kind = "remove" THEN kept \ {c.id} ELSE kept
  BY DEF Ask, BeginLoad, Goto, store
<1> QED
  BY <1>1 DEF KeptInv, Allowed, Writing

LEMMA SaveKept ==
  ASSUME FileInv, KeptInv, UNCHANGED faults, SaveList
  PROVE  KeptInv'
<1>1. PICK b \in NewLists(call, Records(result)) :
        /\ Save(b)
        /\ kept' = IF call.kind = "recover" THEN kept \ (Records(result) \ b) ELSE kept
        /\ call' = call
  BY DEF SaveList
<1>2. b \in Bodies
  BY <1>1, NewListsType DEF FileInv
<1>3. /\ pc' = "clearTmp" /\ body' = b /\ writing' = "save" /\ pc = "loaded"
      /\ Allowed' = Allowed \cup {b}
  BY <1>1 DEF Save, StartWrite, Goto, Allowed
<1>4. kept \subseteq Records(result)
  BY <1>3 DEF KeptInv
<1>5. kept' \subseteq b /\ kept' \subseteq kept /\ (call.kind = "upsert" => call.id \in b)
  BY <1>1, <1>4 DEF KeptInv, NewLists
<1>6. Records(b) = b
  BY <1>2 DEF Records
<1> QED
  BY <1>1, <1>3, <1>5, <1>6 DEF KeptInv, Writing

LEMMA ReportKept ==
  ASSUME FileInv, KeptInv, UNCHANGED faults, Report
  PROVE  KeptInv'
<1>1. pc = "saved" /\ body \in Bodies \cap Allowed /\ call' = call
  BY DEF Report, WriteSaved, FileInv, JournalInv, Held, Writing
<1>2. kept \subseteq body
  BY <1>1 DEF KeptInv, Records
<1>3. CASE writing = "save" /\ offered' = {body} /\ possible' = {body} /\ Goto("idle")
  <2>1. pc' = "idle" /\ Allowed' = {body} /\ Records(body) = body
    BY <1>1, <1>3 DEF Goto, Allowed, Records
  <2>2. kept' = IF call.kind = "upsert" THEN kept \cup {call.id} ELSE kept
    BY <1>3 DEF Report
  <2>3. kept' \subseteq body
    BY <1>1, <1>2, <1>3, <2>2 DEF KeptInv, Writing
  <2> QED
    BY <1>1, <2>1, <2>2, <2>3 DEF KeptInv, Writing
<1>4. CASE writing = "load" /\ LoadReturns(body)
  <2>1. kept' = kept
    BY <1>4 DEF Report
  <2> QED
    BY <1>1, <1>4, <2>1, ReturnsAllowed DEF KeptInv, Writing
<1> QED
  BY <1>3, <1>4 DEF Report, WriteSaved

(* The calls between: what they read and keep is on offer.                  *)
LEMMA WorkKept ==
  ASSUME FileInv, KeptInv, UNCHANGED faults, Work
  PROVE  KeptInv'
<1> UNCHANGED <<call, kept>>
  BY DEF Work
<1>1. ASSUME UNCHANGED <<offered, possible, writing, body, snap>>,
             \/ pc' \in {"idle", "read", "dropTmp", "clearPrimary", "restore", "clearTorn", "fallback"}
             \/ pc \in Writing /\ pc' \in Writing \cup {"failed"}
             \/ pc \in {"fallback", "restore"} /\ pc' = "returnBak"
      PROVE  KeptInv'
  <2>1. Allowed' = Allowed
    BY <1>1 DEF Allowed
  <2>2. pc \in Writing => body \in Allowed
    BY DEF FileInv, JournalInv, Held
  <2>3. pc \in {"fallback", "restore"} => snap.bak \in Allowed
    BY NotDocuments DEF FileInv, JournalInv, Held, Repair, Base, Exists, Valid
  <2> QED
    BY <1>1, <2>1, <2>2, <2>3 DEF KeptInv, Writing
<1>2. ASSUME NEW v \in Allowed, LoadReturns(v) PROVE KeptInv'
  BY <1>2, ReturnsAllowed DEF KeptInv, Writing
<1>3. CASE ReadFiles
  <2>1. snap' = disk /\ disk' = disk
    <3>1. snap' \in [File -> Content] /\ \A f \in File : snap'[f] = disk[f]
      BY <1>3, OnlyOpenAndWriteFail DEF ReadFiles, FileInv
    <3> QED
      BY <1>3, <3>1 DEF ReadFiles, FileInv, TypeInv, TypeOK
  <2>2. CASE decideLoad(disk) = "Tmp" /\ StartWrite(disk.tmp, "load") /\ UNCHANGED <<result, store>>
    BY <2>2 DEF StartWrite, Goto, KeptInv, store, Allowed
  <2>3. CASE /\ Goto("dropTmp") \/ Goto("clearPrimary")
             /\ UNCHANGED <<body, writing, result, store>>
    BY <2>3 DEF Goto, store, KeptInv, Allowed, Writing
  <2>4. CASE decideLoad(disk) = "None" /\ LoadReturns(Nothing)
    <3>1. Nothing \in Allowed
      BY <2>4 DEF decideLoad, Recoverable, FileInv, JournalInv, Held
    <3> QED
      BY <1>2, <2>4, <3>1
  <2> QED
    BY <1>3, <2>1, <2>2, <2>3, <2>4 DEF ReadFiles
<1>4. CASE DropStaleTmp
  <2>1. Recoverable(snap) \in Allowed
    BY <1>4, PrimaryWins DEF DropStaleTmp, FileInv, JournalInv, Held, Repair
  <2> QED
    BY <1>2, <1>4, <2>1 DEF DropStaleTmp
<1>5. CASE ReturnBak
  BY <1>2, <1>5 DEF ReturnBak, KeptInv
<1>6. CASE WriteFailed
  <2>1. body \in Allowed /\ pc = "failed"
    BY <1>6 DEF WriteFailed, KeptInv
  <2>2. UNCHANGED <<writing, body, snap>>
    BY <1>6 DEF WriteFailed
  <2>3. CASE LoadReturns(body)
    BY <1>2, <2>1, <2>3
  <2>4. CASE pc' \in {"idle", "clearTorn"} /\ UNCHANGED store
    BY <1>1, <2>2, <2>4 DEF store
  <2> QED
    BY <1>6, <2>3, <2>4 DEF WriteFailed, Goto
<1>7. CASE WriteStep
  <2>1. UNCHANGED <<offered, possible, writing, body, snap>>
    BY <1>7 DEF WriteStep, RenameFile, RenameRefused, ClearTarget, OpenTarget, FillTarget,
                UnlinkSource, Keep, store
  <2>2. CASE RenameFile
    <3>1. pc \in {"toBak", "toPrimary", "fallback", "restore"} /\ pc' = OnOk[pc]
      BY <2>2, Rows DEF RenameFile, Goto, Write, FileInv, JournalInv, Places, RenameRefusedOnly
    <3> QED
      BY <1>1, <2>1, <3>1, Rows DEF Writing
  <2>3. CASE ClearTarget \/ OpenTarget \/ FillTarget
    <3>1. pc = "writeTmp" /\ pc' \in {"writeTmp", "checkPrimary", "failed"}
      BY <2>3, Rows DEF ClearTarget, OpenTarget, FillTarget, Goto, FileInv, JournalInv, Places
    <3> QED
      BY <1>1, <2>1, <3>1 DEF Writing
  <2> QED
    BY <1>7, <2>2, <2>3, RenameAccepted DEF WriteStep, FileInv
<1>8. CASE DropStep
  <2>1. ASSUME NEW at, NEW f, NEW next, RemoveFile(at, f, next)
        PROVE  pc = at /\ pc' = next /\ UNCHANGED <<offered, possible, writing, body, snap>>
    BY <2>1 DEF RemoveFile, Goto, Keep, store
  <2>2. /\ UNCHANGED <<offered, possible, writing, body, snap>>
        /\ \/ pc \in Writing /\ pc' \in Writing
           \/ pc' \in {"fallback", "restore"}
           \/ pc \in {"dropNew", "clearBad"}
    BY <1>8, <2>1 DEF DropStep, Writing
  <2>3. pc \notin {"dropNew", "clearBad"}
    BY DEF FileInv, JournalInv, Places, RenameRefusedOnly
  <2> QED
    BY <1>1, <2>2, <2>3
<1>9. CASE CheckPrimary \/ UndoCheck \/ Verify
  <2>1. /\ UNCHANGED <<offered, possible, writing, body, snap>>
        /\ \/ pc = "checkPrimary" /\ pc' \in {"clearBak", "toPrimary"}
           \/ pc = "verify" /\ pc' \in {"dropOldBak", "failed"}
    <3>1. pc # "undoCheck"
      BY DEF FileInv, JournalInv, Places, RenameRefusedOnly
    <3>2. pc = "verify" => \A c \in ReadResult(disk.primary) : Valid(c)
      BY OnlyOpenAndWriteFail DEF FileInv, JournalInv, Held, Protocol, Writing, Valid
    <3> QED
      BY <1>9, <3>1, <3>2 DEF CheckPrimary, UndoCheck, Verify, Goto, Keep, store
  <2> QED
    BY <1>1, <2>1 DEF Writing
<1>10. CASE Crash
  BY <1>10 DEF Crash, Goto, store, KeptInv, Allowed, Writing
<1> QED
  BY <1>3, <1>4, <1>5, <1>6, <1>7, <1>8, <1>9, <1>10 DEF Work

LEMMA KeptStep == FileInv /\ KeptInv /\ UNCHANGED faults /\ [JNext]_jvars => KeptInv'
<1> SUFFICES ASSUME FileInv, KeptInv, UNCHANGED faults, [JNext]_jvars PROVE KeptInv'
  OBVIOUS
<1>1. CASE UNCHANGED jvars
  BY <1>1 DEF jvars, vars, store, KeptInv, Allowed
<1> QED
  BY <1>1, AskKept, SaveKept, ReportKept, WorkKept DEF JNext

(* A record that was reported written stays until its own removal or a      *)
(* recovery drops it, for any package ids, on cards where opens and writes  *)
(* may fail and the power may be cut anywhere (InstallJournal!RecordsKept). *)
THEOREM RecordsSafe ==
  ASSUME \A f \in Fates : f.faults \subseteq {"open", "write"}
  PROVE  JSpec => []RecordsKept
<1> DEFINE Served == JTypeOK /\ TypeInv /\ ProtocolKept /\ KeptInv
<1>1. TypeOK => faults \subseteq {"open", "write"}
  BY DEF TypeOK, FateOK
<1>2. JInit => Served
  BY InitJTypes, InitKept, InitJournalInv DEF JInit, ProtocolKept
<1>3. Served /\ [JNext]_jvars => Served'
  <2> SUFFICES ASSUME Served, [JNext]_jvars PROVE Served'
    OBVIOUS
  <2>1. [Next]_vars /\ (JTypeOK /\ TypeInv)' /\ UNCHANGED faults
    BY FileStep, JTypeStep, FateTypes DEF TypeInv, TypeOK
  <2>2. FileInv
    BY <1>1 DEF FileInv, ProtocolKept, TypeInv
  <2>3. JournalInv'
    BY <2>1, <2>2, StepJournalInv DEF FileInv
  <2>4. KeptInv'
    BY <2>1, <2>2, KeptStep
  <2> QED
    BY <2>1, <2>3, <2>4 DEF ProtocolKept
<1>4. Served => RecordsKept
  BY <1>1 DEF RecordsKept, KeptInv, ProtocolKept, JournalInv, Held, TypeInv
<1> QED
  BY <1>2, <1>3, <1>4, PTL DEF JSpec
=============================================================================
