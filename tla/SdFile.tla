------------------------------- MODULE SdFile -------------------------------
(* Small files on the SD card as the app store's durable files see them.    *)
(* A file is absent, torn (created or partly written, never a valid JSON    *)
(* document) or holds a whole body.  Removal, rename, open and write are    *)
(* each one step that is durable when it ends; a power cut falls between    *)
(* two steps.                                                               *)
EXTENDS Fate

CONSTANTS Bodies,   \* the documents a store may hold
          Nothing,  \* what a load yields when no file is usable
          Absent, Torn

FaultKinds == {"remove", "rename", "open", "write", "read"}

ASSUME SdFileAssumption ==
         /\ \A f \in Fates : f.faults \subseteq FaultKinds
         /\ Nothing \notin Bodies /\ Absent \notin Bodies /\ Torn \notin Bodies
         /\ Absent # Torn /\ Nothing # Absent /\ Nothing # Torn

Content == Bodies \cup {Absent, Torn}

Exists(c) == c # Absent

(* isValidJournalBody / parseRegistry accept whole documents only. *)
Valid(c) == c \in Bodies

(* SDCardManager::remove: what the file may be afterwards. *)
Removed(c) == {Absent} \cup {x \in {c} : MayFail("remove")}

(* readExactFile / readAllText: a failed read looks like an absent file. *)
ReadResult(c) == {c} \cup {x \in {Absent} : MayFail("read")}

(* SdFat refuses to rename onto an existing name. *)
CanRename(src, dst) == Exists(src) /\ ~Exists(dst)
=============================================================================
