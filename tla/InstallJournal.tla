--------------------------- MODULE InstallJournal ---------------------------
(* The journal's clients see a list of transaction records, at most one per *)
(* package id.  upsert, remove and recoverAll are each a load, a change of  *)
(* the list in memory, and a save of the whole list, run on JournalFile.    *)
(* A document is the set of the ids it has a record for.                    *)
EXTENDS JournalFile

CONSTANT Ids

ASSUME InstallJournalAssumption == Bodies = SUBSET Ids

VARIABLES call,  \* the request being served
          kept   \* history: ids whose upsert returned true and that nothing
                 \* has asked to drop since

jvars == <<vars, call, kept>>

Request == [kind : {"find", "recover"}] \cup [kind : {"upsert", "remove"}, id : Ids]

JTypeOK == TypeOK /\ call \in Request /\ kept \subseteq Ids

(* parseBody: no file and an unusable file both read as an empty list. *)
Records(doc) == IF doc \in Bodies THEN doc ELSE {}

(* Mutant: upsert writes a list of its own record. *)
NewListsAlone(c, loaded) == CASE c.kind = "upsert"  -> {{c.id}}
                              [] c.kind = "remove"  -> {loaded \ {c.id}}
                              [] c.kind = "recover" -> SUBSET loaded
                              [] OTHER              -> {}

(* The lists a request may save, given the list it loaded.  recoverAll      *)
(* keeps the records it could not finish, which its hooks decide.           *)
NewLists(c, loaded) == CASE c.kind = "upsert"  -> {loaded \cup {c.id}}
                         [] c.kind = "remove"  -> {loaded \ {c.id}}
                         [] c.kind = "recover" -> SUBSET loaded
                         [] OTHER              -> {}

JInit == Init /\ call = [kind |-> "find"] /\ kept = {}

Ask(c) ==
  /\ BeginLoad(IF c.kind = "find" THEN "load" ELSE "update")
  /\ call' = c
  /\ kept' = IF c.kind = "remove" THEN kept \ {c.id} ELSE kept

SaveList ==
  \E b \in NewLists(call, Records(result)) :
    /\ Save(b)
    /\ kept' = IF call.kind = "recover" THEN kept \ (Records(result) \ b) ELSE kept
    /\ UNCHANGED call

Report ==
  /\ WriteSaved
  /\ kept' = IF writing = "save" /\ call.kind = "upsert" THEN kept \cup {call.id} ELSE kept
  /\ UNCHANGED call

Work == /\ \/ ReadFiles \/ DropStaleTmp \/ ReturnBak \/ WriteStep \/ DropStep
           \/ CheckPrimary \/ UndoCheck \/ Verify \/ WriteFailed \/ Crash
        /\ UNCHANGED <<call, kept>>

JNext == (\E c \in Request : Ask(c)) \/ SaveList \/ Report \/ Work

JSpec == JInit /\ [][JNext]_jvars

-----------------------------------------------------------------------------
(* A transaction whose record was reported written keeps that record, so    *)
(* that the next boot can recover it, until its own remove or a recovery    *)
(* drops it: no other package's install, no failed write and no power cut   *)
(* loses it (M4xInstallJournal.cpp:385, "Records we retained are still on   *)
(* disk from before").  A file that exists and cannot be read is taken for  *)
(* none, so nothing is claimed of a card on which reads fail.               *)
RecordsKept == "read" \notin faults => kept \subseteq Records(Recoverable(disk))
=============================================================================
