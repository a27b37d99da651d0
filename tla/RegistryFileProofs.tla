------------------------- MODULE RegistryFileProofs -------------------------
(* What RegistryFile promises for any lists and any cards, each property    *)
(* under the condition on the card that it states itself.                   *)
EXTENDS RegistryFile, TLAPS

-----------------------------------------------------------------------------
(* The inductive invariant.  The list in force before a save.               *)
Backed(d) == IF Valid(d.bak) THEN d.bak ELSE Nothing

BeforeMove == {"checkPrimary", "clearBak", "moveToBak", "copyToBak", "dropPrimary", "promote"}
BeforeSwitch == BeforeMove \cup {"writeTmp", "rewrite"}

(* The new list is in the tmp until it is in the primary.                   *)
Written == /\ pc \in BeforeSwitch \cup {"heal", "dropTmp", "saved"} => out \in Bodies
           /\ pc \in BeforeMove => disk.tmp = out
           /\ pc \in {"dropTmp", "saved"} => disk.primary = out

(* What no call can reach when all of one kind succeed.                     *)
Reached == /\ pc \in {"clearBak", "moveToBak"} => Exists(disk.primary)
           /\ WritesWork => pc \notin {"undo", "failed"}
           /\ MovesWork => /\ pc \notin {"copyToBak", "dropPrimary", "rewrite", "undo"}
                           /\ pc = "moveToBak" => ~Exists(disk.bak)
                           /\ pc = "promote" => ~Exists(disk.primary)
                           /\ pc = "heal" /\ stage = "open" => ~Exists(disk.primary)

Unsaved == /\ pc = "writeTmp" => Recoverable(disk) = before
           /\ pc = "failed" /\ CardServes => Recoverable(disk) = before

(* Loads: what was read is what is in force, and a torn primary is healed   *)
(* or gone before a save may take it for the list to back up.               *)
Loaded == /\ pc = "readBak" => ~Valid(disk.primary)
          /\ pc = "heal" => disk.bak = out /\ ~Valid(disk.primary)
          /\ pc = "loaded" => out = Recoverable(disk)
          /\ pc \in {"loaded", "ready", "writeTmp", "checkPrimary", "clearBak"} /\ Valid(disk.bak)
               => disk.primary # Torn

(* Saves: the old list stays in force until the new one is.                 *)
Saving == /\ pc \in BeforeSwitch => Recoverable(disk) = before
          /\ pc \in {"moveToBak", "copyToBak"} => Valid(disk.primary) \/ ~Valid(disk.bak)
          /\ pc \in {"dropPrimary", "promote", "rewrite"} => Backed(disk) = before
          /\ pc \in BeforeSwitch \cup {"dropTmp", "saved"} => {before, out} \subseteq possible

RegistryInv == /\ TypeOK /\ Written /\ Reached /\ Unsaved
               /\ CardReads => Loaded /\ Saving /\ Recoverable(disk) \in possible

-----------------------------------------------------------------------------
(* The card's calls.                                                        *)
LEMMA CardCalls ==
  /\ WritesWork => ~MayFail("open") /\ ~MayFail("write")
  /\ MovesWork => ~MayFail("rename") /\ \A c : Removed(c) = {Absent}
  /\ CardReads => CardServes /\ \A c : ReadResult(c) = {c}
  /\ \A c : Removed(c) \subseteq {c, Absent} /\ ReadResult(c) \subseteq {c, Absent}
BY DEF WritesWork, MovesWork, CardReads, MayFail, Removed, ReadResult

LEMMA CardStays ==
  ASSUME UNCHANGED faults
  PROVE  /\ (WritesWork' <=> WritesWork) /\ (MovesWork' <=> MovesWork)
         /\ (CardServes' <=> CardServes) /\ (CardReads' <=> CardReads)
BY DEF WritesWork, MovesWork, CardServes, CardReads

LEMMA NotDocuments == ~Valid(Absent) /\ ~Valid(Torn) /\ Nothing \notin Bodies /\ Absent # Torn
BY SdFileAssumption DEF Valid

LEMMA Rows ==
  /\ Dst["heal"] = "primary" /\ Dst["writeTmp"] = "tmp" /\ Dst["copyToBak"] = "bak"
  /\ Dst["rewrite"] = "primary"
  /\ OnOk["heal"] = "loaded" /\ OnOk["writeTmp"] = "checkPrimary"
  /\ OnOk["copyToBak"] = "dropPrimary" /\ OnOk["rewrite"] = "dropTmp"
  /\ OnFail["heal"] = "loaded" /\ OnFail["writeTmp"] = "failed"
  /\ OnFail["copyToBak"] = "dropPrimary" /\ OnFail["rewrite"] = "undo"
BY DEF Dst, OnOk, OnFail

(* The list in force is the primary's or else the bak's.                    *)
LEMMA InForce ==
  \A d : /\ Valid(d.primary) => Recoverable(d) = d.primary
         /\ ~Valid(d.primary) => Recoverable(d) = Backed(d)
         /\ Valid(d.bak) => Backed(d) = d.bak
         /\ ~Valid(d.bak) => Backed(d) = Nothing
BY DEF Recoverable, Backed

-----------------------------------------------------------------------------
(* Types.                                                                   *)
LEMMA FateTypes ==
  ASSUME FateOK, [Next]_registry
  PROVE  FateOK' /\ UNCHANGED faults
<1>1. UNCHANGED fate \/ PowerCut
  BY DEF Next, registry, fate, Crash, WriteStep, ClearTarget, OpenTarget, FillTarget, Keep,
         BeginLoad, ReadPrimary, ReadBak, LoadReturns, Save, CheckPrimary, ClearBak, MoveToBak,
         DropPrimary, Promote, DropTmp, Undo, SaveReturns
<1> QED
  BY <1>1, FateAssumption DEF FateOK, fate, PowerCut

LEMMA DiskStep ==
  ASSUME disk \in [File -> Content], NEW f \in File, NEW c \in Content, Put(f, c)
  PROVE  /\ disk' \in [File -> Content] /\ disk'[f] = c
         /\ \A g \in File \ {f} : disk'[g] = disk[g]
BY DEF Put

LEMMA GotoType ==
  ASSUME NEW p \in Step, Goto(p)
  PROVE  pc' \in Step /\ stage' \in {"no", "clear", "open", "fill"}
BY DEF Goto

LEMMA RecoverableType ==
  ASSUME disk \in [File -> Content]
  PROVE  Recoverable(disk) \in Bodies \cup {Nothing}
BY DEF Recoverable, Valid

LEMMA ContentType == ASSUME NEW c \in Content PROVE Removed(c) \subseteq Content /\ ReadResult(c) \subseteq Content
BY DEF Removed, ReadResult, Content

LEMMA TypeStep ==
  ASSUME TypeOK, Written, [Next]_registry
  PROVE  TypeOK'
<1> FateOK'
  BY FateTypes DEF TypeOK
<1> USE DEF TypeOK, Keep
<1>1. ASSUME NEW kind \in {"load", "update"}, BeginLoad(kind) PROVE TypeOK'
  BY <1>1 DEF BeginLoad, Goto, Step, Write
<1>2. CASE ReadPrimary \/ ReadBak
  <2>1. out' \in Bodies \cup {Nothing}
    BY <1>2 DEF ReadPrimary, ReadBak, Valid
  <2>2. pc' \in Step /\ stage' \in {"no", "clear", "open", "fill"}
    BY <1>2 DEF ReadPrimary, ReadBak, Goto, Step, Write
  <2> QED
    BY <1>2, <2>1, <2>2 DEF ReadPrimary, ReadBak
<1>3. CASE LoadReturns
  BY <1>3 DEF LoadReturns, Goto, Step, Write
<1>4. ASSUME NEW b \in Bodies, Save(b) PROVE TypeOK'
  BY <1>4, RecoverableType DEF Save, Goto, Step, Write
<1>5. CASE WriteStep
  <2>1. /\ pc \in Write /\ Keep /\ Dst[pc] \in File
        /\ {OnOk[pc], OnFail[pc]} \subseteq Step \ Write
    BY <1>5, Rows DEF WriteStep, ClearTarget, OpenTarget, FillTarget, Write, File, Step
  <2>2. Buffer \in Content /\ Torn \in Content
    BY <2>1 DEF Buffer, Content, Written, Write, File, BeforeSwitch, BeforeMove
  <2>3. pc' \in Step /\ stage' \in {"no", "clear", "open", "fill"}
    BY <1>5, <2>1, GotoType DEF WriteStep, ClearTarget, OpenTarget, FillTarget
  <2>4. disk' \in [File -> Content]
    <3>1. ASSUME NEW c \in Content, Put(Dst[pc], c) PROVE disk' \in [File -> Content]
      BY <2>1, <3>1, DiskStep
    <3>2. Removed(disk[Dst[pc]]) \subseteq Content /\ Removed(Torn) \subseteq Content
      BY <2>1, <2>2, ContentType
    <3> QED
      BY <1>5, <2>2, <3>1, <3>2 DEF WriteStep, ClearTarget, OpenTarget, FillTarget
  <2> QED
    BY <2>1, <2>3, <2>4
<1>6. CASE CheckPrimary \/ SaveReturns
  <2>1. pc' \in Step /\ stage' \in {"no", "clear", "open", "fill"}
    BY <1>6 DEF CheckPrimary, SaveReturns, Goto, Step, Write
  <2>2. offered' \subseteq Bodies \cup {Nothing} /\ possible' \subseteq offered'
    BY <1>6 DEF CheckPrimary, SaveReturns
  <2> QED
    BY <1>6, <2>1, <2>2 DEF CheckPrimary, SaveReturns
<1>7. CASE ClearBak \/ DropPrimary \/ DropTmp
  <2>1. \E f \in File : \E c \in Removed(disk[f]) : Put(f, c)
    BY <1>7 DEF ClearBak, DropPrimary, DropTmp, File
  <2>2. disk' \in [File -> Content]
    BY <2>1, ContentType, DiskStep
  <2>3. pc' \in Step /\ stage' \in {"no", "clear", "open", "fill"}
    BY <1>7 DEF ClearBak, DropPrimary, DropTmp, Goto, Step, Write
  <2> QED
    BY <1>7, <2>2, <2>3 DEF ClearBak, DropPrimary, DropTmp
<1>8. CASE MoveToBak \/ Promote \/ Undo
  <2>1. disk' \in [File -> Content]
    BY <1>8 DEF MoveToBak, Promote, Undo, File, Content
  <2>2. pc' \in Step /\ stage' \in {"no", "clear", "open", "fill"}
    BY <1>8 DEF MoveToBak, Promote, Undo, Goto, Step, Write
  <2> QED
    BY <1>8, <2>1, <2>2 DEF MoveToBak, Promote, Undo
<1>9. CASE Crash
  BY <1>9 DEF Crash, Goto, Step, Write
<1>10. CASE UNCHANGED registry
  BY <1>10 DEF registry
<1> QED
  BY <1>1, <1>2, <1>3, <1>4, <1>5, <1>6, <1>7, <1>8, <1>9, <1>10 DEF Next

-----------------------------------------------------------------------------
(* The steps of a load.                                                     *)
LEMMA LoadInv ==
  ASSUME RegistryInv, TypeOK', UNCHANGED faults,
         \/ \E kind \in {"load", "update"} : BeginLoad(kind)
         \/ ReadPrimary \/ ReadBak \/ LoadReturns
  PROVE  RegistryInv'
<1> USE CardCalls, CardStays, NotDocuments, InForce
    DEF RegistryInv, Written, Reached, Unsaved, Loaded, Saving, BeforeMove, BeforeSwitch, Goto, Write
<1>1. disk' = disk
  BY DEF BeginLoad, ReadPrimary, ReadBak, LoadReturns
<1>2. ASSUME NEW kind \in {"load", "update"}, BeginLoad(kind) PROVE RegistryInv'
  BY <1>1, <1>2 DEF BeginLoad
<1>3. CASE ReadPrimary
  BY <1>1, <1>3 DEF ReadPrimary
<1>4. CASE ReadBak
  <2>1. pc = "readBak" /\ pc' \in {"heal", "loaded"} /\ stage' \in {"clear", "no"}
    BY <1>4 DEF ReadBak
  <2>2. pc' = "heal" => out' \in Bodies
    BY <1>4 DEF ReadBak, Valid
  <2>3. CardReads => /\ out' = Backed(disk) /\ ~Valid(disk.primary) /\ possible' = possible
                     /\ pc' = "heal" => disk.bak = out'
                     /\ pc' = "loaded" => ~Valid(disk.bak)
    BY <1>4 DEF ReadBak
  <2> QED
    BY <1>1, <2>1, <2>2, <2>3
<1>5. CASE LoadReturns
  BY <1>1, <1>5 DEF LoadReturns
<1> QED
  BY <1>2, <1>3, <1>4, <1>5

(* The first steps of a save, up to the move of the primary to the bak.     *)
LEMMA SaveInv ==
  ASSUME RegistryInv, TypeOK', UNCHANGED faults,
         (\E b \in Bodies : Save(b)) \/ CheckPrimary \/ ClearBak
  PROVE  RegistryInv'
<1> USE CardCalls, CardStays, NotDocuments, InForce
    DEF RegistryInv, Written, Reached, Unsaved, Loaded, Saving, BeforeMove, BeforeSwitch, Goto, Write
<1>1. ASSUME NEW b \in Bodies, Save(b) PROVE RegistryInv'
  BY <1>1 DEF Save
<1>2. CASE CheckPrimary
  <2>1. /\ pc = "checkPrimary" /\ UNCHANGED <<disk, out, before, possible>>
        /\ \/ pc' = "clearBak" /\ Exists(disk.primary)
           \/ pc' = "promote" /\ ~Exists(disk.primary)
    BY <1>2 DEF CheckPrimary, Keep
  <2>2. ~Exists(disk.primary) => ~Valid(disk.primary)
    BY DEF Exists
  <2> QED
    BY <2>1, <2>2
<1>3. CASE ClearBak
  <2>1. PICK c \in Removed(disk.bak) : Put("bak", c)
    BY <1>3 DEF ClearBak
  <2>2. disk'.bak = c /\ disk'.primary = disk.primary /\ disk'.tmp = disk.tmp
    BY <2>1 DEF Put, TypeOK, File
  <2>3. pc = "clearBak" /\ pc' = "moveToBak" /\ UNCHANGED <<out, before, possible>>
    BY <1>3 DEF ClearBak, Keep
  <2>4. Valid(disk.primary) \/ ~Valid(disk.bak) \/ ~CardReads
    BY <2>3 DEF TypeOK, File, Content, Exists, Valid
  <2>5. c \in {disk.bak, Absent} /\ (MovesWork => ~Exists(c))
    BY <2>1 DEF Exists
  <2>6. CardReads => Recoverable(disk') = Recoverable(disk)
    BY <2>2, <2>4, <2>5
  <2> QED
    BY <2>2, <2>3, <2>4, <2>5, <2>6
<1> QED
  BY <1>1, <1>2, <1>3

(* The moves, the removals and the end of a save.                           *)
LEMMA MoveInv ==
  ASSUME RegistryInv, TypeOK', UNCHANGED faults, MoveToBak \/ DropPrimary \/ Promote
  PROVE  RegistryInv'
<1> USE CardCalls, CardStays, NotDocuments, InForce
    DEF RegistryInv, Written, Reached, Unsaved, Loaded, Saving, BeforeMove, BeforeSwitch, Goto, Write
<1>1. CASE MoveToBak
  <2>1. pc = "moveToBak" /\ UNCHANGED <<out, before, possible>> /\ Exists(disk.primary)
    BY <1>1 DEF MoveToBak, Keep
  <2>2. CASE /\ CanRename(disk.primary, disk.bak)
             /\ disk' = [disk EXCEPT !.bak = disk.primary, !.primary = Absent]
             /\ Goto("promote")
    <3>1. /\ disk'.bak = disk.primary /\ disk'.primary = Absent /\ disk'.tmp = disk.tmp
          /\ pc' = "promote"
      BY <2>2 DEF TypeOK, File
    <3>2. ~Valid(disk.bak)
      BY <2>2 DEF CanRename, Exists
    <3>3. Recoverable(disk') = Recoverable(disk) /\ Backed(disk') = Recoverable(disk)
      BY <3>1, <3>2
    <3> QED
      BY <2>1, <3>1, <3>3 DEF Exists
  <2>3. CASE /\ MayFail("rename") \/ ~CanRename(disk.primary, disk.bak)
             /\ UNCHANGED disk
             /\ \/ Goto("copyToBak")
                \/ (disk.primary = Torn \/ MayFail("read")) /\ Goto("dropPrimary")
    <3>1. ~MovesWork
      BY <2>1, <2>3 DEF CanRename
    <3>2. pc' \in {"copyToBak", "dropPrimary"}
      BY <2>3
    <3>3. pc' = "dropPrimary" /\ CardReads => Backed(disk) = before
      BY <2>1, <2>3 DEF CardReads, MayFail
    <3> QED
      BY <2>1, <2>3, <3>1, <3>2, <3>3
  <2> QED
    BY <1>1, <2>2, <2>3 DEF MoveToBak
<1>2. CASE DropPrimary
  <2>1. PICK c \in Removed(disk.primary) : Put("primary", c)
    BY <1>2 DEF DropPrimary
  <2>2. disk'.primary = c /\ disk'.bak = disk.bak /\ disk'.tmp = disk.tmp
    BY <2>1 DEF Put, TypeOK, File
  <2>3. /\ pc = "dropPrimary" /\ pc' = "promote" /\ UNCHANGED <<out, before, possible>>
        /\ c \in {disk.primary, Absent}
    BY <1>2, <2>1 DEF DropPrimary, Keep
  <2>4. Backed(disk') = Backed(disk) /\ (CardReads => Recoverable(disk') = before)
    BY <2>2, <2>3 DEF Backed
  <2> QED
    BY <2>2, <2>3, <2>4
<1>3. CASE Promote
  <2>1. pc = "promote" /\ UNCHANGED <<out, before, possible>>
    BY <1>3 DEF Promote, Keep
  <2>2. CASE /\ disk' = [disk EXCEPT !.primary = disk.tmp, !.tmp = Absent]
             /\ Goto("saved")
    <3>1. disk'.primary = out /\ Valid(out) /\ pc' = "saved"
      BY <2>1, <2>2 DEF TypeOK, File, Valid
    <3>2. Recoverable(disk') = out
      BY <3>1
    <3> QED
      BY <2>1, <3>1, <3>2 DEF Valid
  <2>3. CASE /\ MayFail("rename") \/ ~CanRename(disk.tmp, disk.primary)
             /\ Goto("rewrite")
             /\ UNCHANGED disk
    <3>1. ~MovesWork
      BY <2>1, <2>3 DEF CanRename, Exists, Valid
    <3> QED
      BY <2>1, <2>3, <3>1
  <2> QED
    BY <1>3, <2>2, <2>3 DEF Promote
<1> QED
  BY <1>1, <1>2, <1>3

LEMMA EndInv ==
  ASSUME RegistryInv, TypeOK', UNCHANGED faults, DropTmp \/ Undo \/ SaveReturns \/ Crash
  PROVE  RegistryInv'
<1> USE CardCalls, CardStays, NotDocuments, InForce
    DEF RegistryInv, Written, Reached, Unsaved, Loaded, Saving, BeforeMove, BeforeSwitch, Goto, Write
<1>1. CASE DropTmp
  <2>1. PICK c \in Removed(disk.tmp) : Put("tmp", c)
    BY <1>1 DEF DropTmp
  <2>2. /\ disk'.primary = disk.primary /\ disk'.bak = disk.bak /\ pc = "dropTmp" /\ pc' = "saved"
        /\ UNCHANGED <<out, before, possible>>
    BY <1>1, <2>1 DEF DropTmp, Put, Keep, TypeOK, File
  <2>3. Recoverable(disk') = Recoverable(disk)
    BY <2>2 DEF Recoverable
  <2> QED
    BY <2>2, <2>3
<1>2. CASE Undo
  <2>1. ~WritesWork /\ ~MovesWork
    BY <1>2 DEF Undo
  <2>2. ~CardServes /\ ~CardReads
    BY <2>1 DEF CardServes, CardReads
  <2> QED
    BY <1>2, <2>1, <2>2 DEF Undo
<1>3. CASE SaveReturns
  <2>1. /\ pc \in {"saved", "failed"} /\ pc' = "idle" /\ disk' = disk
        /\ pc = "saved" => possible' = {out}
        /\ pc = "failed" => possible' = possible
    BY <1>3 DEF SaveReturns
  <2>2. pc = "saved" => Recoverable(disk) = out
    BY DEF Valid
  <2> QED
    BY <2>1, <2>2
<1>4. CASE Crash
  BY <1>4 DEF Crash
<1> QED
  BY <1>1, <1>2, <1>3, <1>4

(* writeAllTextExact: what each of its calls may leave.                     *)
LEMMA WriteOutcome ==
  ASSUME TypeOK, WriteStep
  PROVE  /\ pc \in Write /\ UNCHANGED <<out, before, possible>>
         /\ \E c \in {disk[Dst[pc]], Absent, Torn, Buffer} :
              /\ disk' = [disk EXCEPT ![Dst[pc]] = c]
              /\ \/ /\ pc' = pc /\ stage' = "open"
                    /\ c \in {disk[Dst[pc]], Absent} /\ (MovesWork => c = Absent)
                 \/ pc' = pc /\ stage' = "fill" /\ c = Torn
                 \/ /\ stage = "open" /\ pc' = OnFail[pc] /\ ~WritesWork /\ c = disk[Dst[pc]]
                 \/ /\ pc' = OnFail[pc] /\ ~WritesWork
                    /\ c \in {Absent, Torn} /\ (MovesWork => c = Absent)
                 \/ pc' = OnOk[pc] /\ c = Buffer
<1> USE CardCalls DEF Put, Goto, Keep
<1>1. pc \in Write /\ Dst[pc] \in File /\ disk \in [File -> Content]
  BY Rows DEF WriteStep, ClearTarget, OpenTarget, FillTarget, Write, File, TypeOK
<1>2. CASE ClearTarget
  BY <1>1, <1>2 DEF ClearTarget
<1>3. CASE OpenTarget
  BY <1>1, <1>3 DEF OpenTarget
<1>4. CASE FillTarget
  BY <1>1, <1>4 DEF FillTarget
<1> QED
  BY <1>2, <1>3, <1>4 DEF WriteStep

LEMMA WriteInv ==
  ASSUME RegistryInv, TypeOK', UNCHANGED faults, WriteStep
  PROVE  RegistryInv'
<1> USE CardStays, NotDocuments, InForce
    DEF RegistryInv, Written, Reached, Unsaved, Loaded, Saving, BeforeMove, BeforeSwitch
<1>1. pc \in Write /\ UNCHANGED <<out, before, possible>>
  BY WriteOutcome
<1>2. CardReads => CardServes
  BY CardCalls
<1>3. PICK c \in {disk[Dst[pc]], Absent, Torn, Buffer} :
        /\ disk' = [disk EXCEPT ![Dst[pc]] = c]
        /\ \/ /\ pc' = pc /\ stage' = "open"
              /\ c \in {disk[Dst[pc]], Absent} /\ (MovesWork => c = Absent)
           \/ pc' = pc /\ stage' = "fill" /\ c = Torn
           \/ stage = "open" /\ pc' = OnFail[pc] /\ ~WritesWork /\ c = disk[Dst[pc]]
           \/ /\ pc' = OnFail[pc] /\ ~WritesWork
              /\ c \in {Absent, Torn} /\ (MovesWork => c = Absent)
           \/ pc' = OnOk[pc] /\ c = Buffer
  BY WriteOutcome
<1>4. CASE pc = "heal"
  <2>1. disk'.primary = c /\ disk'.bak = disk.bak /\ disk'.tmp = disk.tmp /\ Buffer = out
    BY <1>3, <1>4, Rows DEF TypeOK, File, Buffer
  <2>2. Valid(out)
    BY <1>4 DEF Valid
  <2>3. CardReads => Recoverable(disk') = out
    <3>1. CardReads => c = out \/ ~Valid(c)
      BY <1>3, <1>4, <2>1, Rows
    <3>2. CardReads => disk.bak = out
      BY <1>4
    <3> QED
      BY <2>1, <2>2, <3>1, <3>2 DEF Recoverable
  <2>4. CardReads /\ pc' = "loaded" => disk'.primary # Torn
    BY <1>2, <1>3, <1>4, <2>1, <2>2, Rows DEF CardServes, Exists
  <2>5. CardReads /\ pc' = "heal" => ~Valid(disk'.primary)
    BY <1>3, <1>4, <2>1, Rows
  <2>6. MovesWork /\ pc' = "heal" /\ stage' = "open" => ~Exists(disk'.primary)
    BY <1>3, <1>4, <2>1, Rows DEF Exists
  <2>7. pc' \in {"heal", "loaded"}
    BY <1>3, <1>4, Rows
  <2> QED
    BY <1>1, <1>4, <2>1, <2>3, <2>4, <2>5, <2>6, <2>7
<1>5. CASE pc = "writeTmp"
  <2>1. disk'.primary = disk.primary /\ disk'.bak = disk.bak /\ disk'.tmp = c /\ Buffer = out
    BY <1>3, <1>5, Rows DEF TypeOK, File, Buffer
  <2>2. \/ pc' = "writeTmp"
        \/ pc' = "failed" /\ ~WritesWork
        \/ pc' = "checkPrimary" /\ c = out
    BY <1>3, <1>5, <2>1, Rows
  <2>3. Recoverable(disk') = Recoverable(disk)
    BY <2>1 DEF Recoverable
  <2> QED
    BY <1>1, <1>5, <2>1, <2>2, <2>3
<1>6. CASE pc = "copyToBak"
  <2>1. /\ disk'.primary = disk.primary /\ disk'.bak = c /\ disk'.tmp = disk.tmp
        /\ Buffer = disk.primary /\ ~MovesWork
    BY <1>3, <1>6, Rows DEF TypeOK, File, Buffer
  <2>2. \/ pc' = "copyToBak" /\ c \in {disk.bak, Absent, Torn}
        \/ pc' = "dropPrimary" /\ ~WritesWork
        \/ pc' = "dropPrimary" /\ c = disk.primary
    BY <1>3, <1>6, <2>1, Rows
  <2>3. CardReads => WritesWork
    BY <1>2, <2>1 DEF CardServes
  <2>4. CardReads => Recoverable(disk') = Recoverable(disk)
    BY <1>6, <2>1, <2>2, <2>3
  <2>5. CardReads /\ pc' = "dropPrimary" => Backed(disk') = before
    BY <1>6, <2>1, <2>2, <2>3, <2>4
  <2> QED
    BY <1>1, <1>6, <2>1, <2>2, <2>4, <2>5
<1>7. CASE pc = "rewrite"
  <2>1. /\ disk'.primary = c /\ disk'.bak = disk.bak /\ disk'.tmp = disk.tmp
        /\ Buffer = out /\ ~MovesWork
    BY <1>3, <1>7, Rows DEF TypeOK, File, Buffer
  <2>2. \/ pc' = "rewrite" /\ c \in {disk.primary, Absent, Torn}
        \/ pc' = "undo" /\ ~WritesWork
        \/ pc' = "dropTmp" /\ c = out
    BY <1>3, <1>7, <2>1, Rows
  <2>3. CardReads => WritesWork
    BY <1>2, <2>1 DEF CardServes
  <2>4. Backed(disk') = Backed(disk)
    BY <2>1 DEF Backed
  <2>5. CardReads /\ pc' = "rewrite" => Recoverable(disk') = before
    BY <1>7, <2>1, <2>2, <2>4
  <2>6. pc' = "dropTmp" => Recoverable(disk') = out
    BY <1>7, <2>1, <2>2 DEF Valid
  <2> QED
    BY <1>1, <1>7, <2>1, <2>2, <2>3, <2>4, <2>5, <2>6
<1> QED
  BY <1>1, <1>4, <1>5, <1>6, <1>7 DEF Write

-----------------------------------------------------------------------------
LEMMA InitInv == Init => RegistryInv
<1> SUFFICES ASSUME Init PROVE RegistryInv
  OBVIOUS
<1>1. FateOK
  BY FateAssumption DEF Init, FateInit, FateOK
<1>2. TypeOK
  BY <1>1 DEF Init, TypeOK, Content, Step, File
<1>3. Recoverable(disk) = Nothing
  BY NotDocuments DEF Init, Recoverable, File
<1> QED
  BY <1>2, <1>3 DEF Init, RegistryInv, Written, Reached, Unsaved, Loaded, Saving, BeforeMove,
                    BeforeSwitch

LEMMA StepInv == RegistryInv /\ [Next]_registry => RegistryInv'
<1> SUFFICES ASSUME RegistryInv, [Next]_registry PROVE RegistryInv'
  OBVIOUS
<1>1. TypeOK' /\ UNCHANGED faults
  BY TypeStep, FateTypes DEF RegistryInv, TypeOK
<1>2. CASE UNCHANGED registry
  BY <1>1, <1>2, CardStays
     DEF registry, RegistryInv, Written, Reached, Unsaved, Loaded, Saving
<1> QED
  BY <1>1, <1>2, LoadInv, SaveInv, MoveInv, EndInv, WriteInv DEF Next

(* Files and documents stay of their kinds (RegistryFile!TypeOK).           *)
THEOREM RegistryTyping == Spec => []TypeOK
BY InitInv, StepInv, PTL DEF Spec, RegistryInv

(* On any card that can write, or can rename and remove, and whose reads    *)
(* work, the next load finds the last list saved or loaded, or one offered  *)
(* since, wherever the power is cut (RegistryFile!Durable).                 *)
THEOREM RegistrySafe == Spec => []Durable
<1>1. RegistryInv => Durable
  BY DEF RegistryInv, Durable
<1> QED
  BY <1>1, InitInv, StepInv, PTL DEF Spec

(* A save that returns true has made its list the one a load returns,       *)
(* whatever failed on the way (RegistryFile!SavedIsLoaded).                 *)
THEOREM SavedSafe == Spec => []SavedIsLoaded
<1>1. RegistryInv => SavedIsLoaded
  BY InForce DEF RegistryInv, Written, SavedIsLoaded, Valid
<1> QED
  BY <1>1, InitInv, StepInv, PTL DEF Spec

(* A save that returns false has left the old list in force, where writes   *)
(* work or renames and removals do (RegistryFile!FailedSaveKeepsOld).       *)
THEOREM FailedSafe == Spec => []FailedSaveKeepsOld
<1>1. RegistryInv => FailedSaveKeepsOld
  BY DEF RegistryInv, Unsaved, FailedSaveKeepsOld
<1> QED
  BY <1>1, InitInv, StepInv, PTL DEF Spec

-----------------------------------------------------------------------------
(* The refinement.                                                          *)
LEMMA CellStep ==
  ASSUME RegistryInv, RegistryInv', UNCHANGED faults, [Next]_registry
  PROVE  [Cell!Next]_<<CellHeld, CellOffered>>
<1> USE CardStays DEF Cell!Next, CellHeld, CellOffered
<1>1. CASE ~CardReads
  BY <1>1
<1>2. CASE CardReads /\ UNCHANGED possible
  <2>1. Recoverable(disk') \in possible
    BY <1>2 DEF RegistryInv
  <2> QED
    BY <1>2, <2>1 DEF Cell!Move
<1>3. ASSUME CardReads, NEW b \in Bodies, Save(b) PROVE Cell!Next
  BY <1>3 DEF Save, Cell!Offer
<1>4. ASSUME CardReads, NEW v, disk' = disk, v = Recoverable(disk), v \in possible,
             possible' \in {possible, possible \cap {v}, {v}}
      PROVE  [Cell!Next]_<<CellHeld, CellOffered>>
  BY <1>4 DEF Cell!Settle
<1>5. CASE CardReads /\ LoadReturns
  <2>1. disk' = disk /\ out = Recoverable(disk) /\ out \in possible /\ possible' = possible \cap {out}
    BY <1>5 DEF LoadReturns, RegistryInv, Loaded
  <2> QED
    BY <1>4, <1>5, <2>1
<1>6. CASE CardReads /\ SaveReturns
  <2>1. CASE pc = "saved"
    <3>1. disk' = disk /\ possible' = {out} /\ disk.primary = out /\ out \in Bodies \cap possible
      BY <1>6, <2>1 DEF SaveReturns, RegistryInv, Written, Saving, BeforeSwitch
    <3>2. out = Recoverable(disk)
      BY <3>1, InForce DEF Valid
    <3> QED
      BY <1>4, <1>6, <3>1, <3>2
  <2>2. CASE pc # "saved"
    BY <1>2, <1>6, <2>2 DEF SaveReturns
  <2> QED
    BY <2>1, <2>2
<1>7. \/ UNCHANGED possible
      \/ LoadReturns \/ SaveReturns \/ \E b \in Bodies : Save(b)
  BY DEF Next, registry, Crash, WriteStep, ClearTarget, OpenTarget, FillTarget, Keep,
         BeginLoad, ReadPrimary, ReadBak, CheckPrimary, ClearBak, MoveToBak,
         DropPrimary, Promote, DropTmp, Undo
<1> QED
  BY <1>1, <1>2, <1>3, <1>5, <1>6, <1>7

(* On a card whose reads work, and which can write, or rename and remove,   *)
(* the registry is a durable store: what a load or a save reports is what   *)
(* the store holds from then on (M4xRegistry.cpp:119-179; ImplementsCell).  *)
THEOREM RegistryImplements == Spec => ImplementsCell
<1>1. Init => Cell!Init
  <2> SUFFICES ASSUME Init PROVE Cell!Init
    OBVIOUS
  <2>1. Recoverable(disk) = Nothing
    BY NotDocuments DEF Init, Recoverable, File
  <2> QED
    BY <2>1 DEF Init, Cell!Init, CellHeld, CellOffered
<1>2. RegistryInv /\ RegistryInv' /\ [Next]_registry => [Cell!Next]_<<CellHeld, CellOffered>>
  BY CellStep, FateTypes DEF RegistryInv, TypeOK
<1> QED
  BY <1>1, <1>2, InitInv, StepInv, PTL DEF Spec, ImplementsCell, Cell!Spec
=============================================================================
