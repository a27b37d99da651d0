---------------------------- MODULE M4xInstaller ----------------------------
(* Install, upgrade, uninstall and boot recovery of one app package         *)
(* (apps/M4xInstaller.cpp with recoverAll of apps/M4xInstallJournal.cpp).   *)
(* The package's directories live, .bak, .staging and .m4x_restore_aside    *)
(* are on the SD card beside the registry and the install journal, which    *)
(* are durable stores (JournalFile, RegistryFile): a save that fails leaves *)
(* one of the two documents.  Every SD call that changes a directory is a   *)
(* step, and the power may be cut between any two.  The ui process lists    *)
(* and uninstalls apps and starts the worker that runs install.             *)
EXTENDS M4xInstallTxn, Fate

CONSTANTS MaxVersion,    \* version codes are 1..MaxVersion
          NoDir,         \* a directory that does not exist
          Env            \* what the user and the power may do, see EnvKinds

FaultKinds == {"rename", "copy", "extract", "remove", "journal", "registry"}

(* reinstall: install the version that is already installed.                *)
(* timeout: doInstall gives up after 60 s while the worker goes on.         *)
(* partialUninstall: a power cut or a failed removal may leave directories  *)
(* of an uninstalled app.                                                   *)
(* retry: install while recovery has had to retain a record.                *)
EnvKinds == {"reinstall", "timeout", "partialUninstall", "retry"}

ASSUME InstallerAssumption ==
         /\ MaxVersion \in Nat \ {0}
         /\ \A f \in Fates : f.faults \subseteq FaultKinds
         /\ Env \subseteq EnvKinds
         /\ NoDir \notin [entry : -1..MaxVersion, rest : -1..MaxVersion]

Version == 1..MaxVersion
Dir == {"live", "bak", "staging", "aside"}
Proc == {"ui", "worker"}

(* What a directory holds: the entry script, and the rest of the files with *)
(* the manifest.  0 is missing, -1 a half-written entry.                    *)
Missing == 0
Torn == -1
Whole(v) == [entry |-> v, rest |-> v]
Shell == [entry |-> Missing, rest |-> Missing]

NoRec == [phase |-> "Idle", prior |-> 0, new |-> 0]
Record == Records(Version) \cup {NoRec}

VARIABLES tree,     \* the four directories
          registry, \* the version the registry lists, 0 for none
          journal,  \* the journal's record for the package
          pc, rec,  \* per process: next call, and the record it works on
          back,     \* per process: where recovery returns to
          act, bak, \* per process: recovery's decision and its fs.bakExists
          hr,       \* per process: the hook results
          hadLive,  \* promoteStaging's hadLive
          offer     \* the version of the package the worker installs

card == <<tree, registry, journal>>
local == <<rec, back, act, bak, hr, hadLive, offer>>
vars == <<card, pc, local, fate>>

AllOk == [dropStagingOk |-> TRUE, restoreOk |-> TRUE, commitOk |-> TRUE, dropBakOk |-> TRUE]

Init == /\ tree = [d \in Dir |-> NoDir] /\ registry = 0 /\ journal = NoRec
        /\ pc = [ui |-> "off", worker |-> "idle"]
        /\ rec = [p \in Proc |-> NoRec]
        /\ back = [p \in Proc |-> "idle"]
        /\ act = [p \in Proc |-> "Retain"] /\ bak = [p \in Proc |-> FALSE]
        /\ hr = [p \in Proc |-> AllOk]
        /\ hadLive = FALSE /\ offer = 1
        /\ FateInit

-----------------------------------------------------------------------------
Exists(d) == tree[d] # NoDir
Goto(self, next) == pc' = [pc EXCEPT ![self] = next]
Frame == UNCHANGED <<local, fate>>
Uninstalling(self) == pc[self] \in {"removeLive", "removeStaging", "removeBak"}

(* bakProvenUsable and the checks after a move look at the entry only.      *)
HasEntry(t) == t # NoDir /\ t.entry # Missing

(* removeTreeBestEffort: the manifest goes first, then the entry, then what *)
(* is left with the directory; it reports nothing and may stop on the way.  *)
Shrink(t) == IF t.rest # Missing THEN [t EXCEPT !.rest = Missing]
             ELSE IF t.entry # Missing THEN [t EXCEPT !.entry = Missing] ELSE NoDir

RemoveSome(d) == Exists(d) /\ tree' = [tree EXCEPT ![d] = Shrink(@)]
RemovalEnds(self, d) ==
  /\ Exists(d) => MayFail("remove") /\ (Uninstalling(self) => "partialUninstall" \in Env)
  /\ UNCHANGED tree

Remove(self, at, d, next) ==
  /\ pc[self] = at
  /\ \/ RemoveSome(d) /\ UNCHANGED pc
     \/ RemovalEnds(self, d) /\ Goto(self, next)
  /\ UNCHANGED <<registry, journal>> /\ Frame

Rename(self, at, src, dst, ok, refused) ==
  /\ pc[self] = at
  /\ \/ /\ Exists(src) /\ ~Exists(dst)
        /\ tree' = [tree EXCEPT ![dst] = tree[src], ![src] = NoDir]
        /\ Goto(self, ok)
     \/ /\ ~Exists(src) \/ Exists(dst) \/ MayFail("rename")
        /\ UNCHANGED tree
        /\ Goto(self, refused)
  /\ UNCHANGED <<registry, journal>> /\ Frame

(* copyListedFiles and extractListed write the directory, the entry and the *)
(* rest in that order, each over what is there, and give up at the first    *)
(* file the source does not have, which of the rest may come early.         *)
Complete(src) == src # NoDir /\ Missing \notin {src.entry, src.rest}

MoreToCopy(t, src) ==
  \/ t = NoDir
  \/ /\ src # NoDir /\ src.entry # Missing
     /\ t.entry # src.entry \/ src.rest \notin {Missing, t.rest}

Grow(t, src) ==
  IF t = NoDir THEN Shell
  ELSE IF t.entry # src.entry
       THEN [t EXCEPT !.entry = IF @ = Torn THEN src.entry ELSE Torn]
       ELSE [t EXCEPT !.rest = IF @ = Missing THEN src.rest ELSE Missing]

CopyTree(self, at, src, dst, ok, failed, fault) ==
  /\ pc[self] = at
  /\ \/ IF MoreToCopy(tree[dst], src)
        THEN tree' = [tree EXCEPT ![dst] = Grow(@, src)] /\ UNCHANGED pc
        ELSE UNCHANGED tree /\ Goto(self, IF Complete(src) THEN ok ELSE failed)
     \/ /\ MayFail(fault) \/ (Exists(dst) /\ ~Complete(src))
        /\ UNCHANGED tree
        /\ Goto(self, failed)
  /\ UNCHANGED <<registry, journal>> /\ Frame

(* M4xInstallJournal::upsert and remove; a failed write leaves either one.  *)
WriteJournal(r) == journal' = r
JournalWriteFails(r) == MayFail("journal") /\ journal' \in {journal, r}

SetPhase(self, at, phase, ok, failed) ==
  /\ pc[self] = at
  /\ LET r == [rec[self] EXCEPT !.phase = phase] IN
       /\ rec' = [rec EXCEPT ![self] = r]
       /\ \/ WriteJournal(r) /\ Goto(self, ok)
          \/ JournalWriteFails(r) /\ Goto(self, failed)
  /\ UNCHANGED <<tree, registry, back, act, bak, hr, hadLive, offer, fate>>

DropRecord(self, at) ==
  /\ pc[self] = at
  /\ WriteJournal(NoRec) \/ JournalWriteFails(NoRec)
  /\ Goto(self, "idle")
  /\ UNCHANGED <<tree, registry>> /\ Frame

(* M4xRegistry::save, which fails only with the old list in place.          *)
SaveRegistry(v) == registry' = v
RegistrySaveFails == MayFail("registry") /\ UNCHANGED registry

-----------------------------------------------------------------------------
(* ensureLayout -> recoverInterruptedInstalls -> recoverAll                 *)
(* Mutant: any entry of the package counts as the new one. *)
hasEntry(r) == registry # 0

matchesNew(r) == registry = r.new

NextHook(a, bakExists) == CASE a = "DropStaging" -> "dropStaging"
                            [] a = "RestoreOld"  -> "prove"
                            [] a = "CommitNew"   -> "commit"
                            [] a = "DropBak"     -> IF bakExists THEN "dropBak" ELSE "dropStaging"
                            [] OTHER             -> "settle"

LoadRecord(self) ==
  /\ pc[self] = "recover"
  /\ LET fs == [live |-> Exists("live"), bak |-> Exists("bak"),
                matchesNew |-> matchesNew(journal)]
         a == decideRecovery(journal, fs)
     IN IF journal = NoRec
        THEN Goto(self, back[self]) /\ UNCHANGED <<act, bak, hr>>
        ELSE /\ act' = [act EXCEPT ![self] = a]
             /\ bak' = [bak EXCEPT ![self] = fs.bak]
             /\ hr' = [hr EXCEPT ![self] = AllOk]
             /\ Goto(self, NextHook(a, fs.bak))
  /\ rec' = [rec EXCEPT ![self] = IF journal = NoRec THEN @ ELSE journal]
  /\ UNCHANGED <<card, back, hadLive, offer, fate>>

HookFails(self, hook) == hr' = [hr EXCEPT ![self] = [@ EXCEPT ![hook] = FALSE]]

(* hookDropStaging and hookDropBak report whether the directory is gone.    *)
DropDir(self, at, d, hook, next) ==
  /\ pc[self] = at
  /\ \/ RemoveSome(d) /\ UNCHANGED <<pc, hr>>
     \/ /\ RemovalEnds(self, d)
        /\ IF Exists(d) THEN HookFails(self, hook) ELSE UNCHANGED hr
        /\ Goto(self, next)
  /\ UNCHANGED <<registry, journal, rec, back, act, bak, hadLive, offer, fate>>

(* hookCommitReg *)
CommitNew(self) ==
  /\ pc[self] = "commit"
  /\ \/ /\ SaveRegistry(rec[self].new)
        /\ UNCHANGED hr
        /\ Goto(self, IF bak[self] THEN "dropBak" ELSE "dropStaging")
     \/ /\ RegistrySaveFails
        /\ LET fb == afterFailedRegistryCommit(bak[self]) IN
             /\ hr' = [hr EXCEPT ![self].commitOk = FALSE, ![self].restoreOk = fb = "RestoreOld"]
             /\ Goto(self, NextHook(fb, bak[self]))
  /\ UNCHANGED <<tree, journal, rec, back, act, bak, hadLive, offer, fate>>

(* hookRestoreOld: live goes aside, bak goes live, then aside and bak go.   *)
ProveBak(self) ==
  /\ pc[self] = "prove"
  /\ Goto(self, IF HasEntry(tree["bak"]) THEN "clearAside" ELSE "restoreFailed")
  /\ UNCHANGED card /\ Frame

MoveAside(self) ==
  /\ pc[self] = "moveAside"
  /\ IF Exists("live")
     THEN Rename(self, "moveAside", "live", "aside", "place", "copyAside")
     ELSE Goto(self, "place") /\ UNCHANGED card /\ Frame

LiveCleared(self) ==
  /\ pc[self] = "liveCleared"
  /\ Goto(self, IF Exists("live") THEN "forgetAside" ELSE "place")
  /\ UNCHANGED card /\ Frame

CheckPlaced(self) ==
  /\ pc[self] = "checkPlaced"
  /\ Goto(self, IF HasEntry(tree["live"]) THEN "dropAside" ELSE "undoPlace")
  /\ UNCHANGED card /\ Frame

RestoreFailed(self) ==
  /\ pc[self] = "restoreFailed"
  /\ HookFails(self, "restoreOk")
  /\ Goto(self, "settle")
  /\ UNCHANGED <<card, rec, back, act, bak, hadLive, offer, fate>>

BringBack(self) ==
  /\ pc[self] = "bringBack"
  /\ IF Exists("aside")
     THEN Rename(self, "bringBack", "aside", "live", "restoreFailed", "copyBack")
     ELSE Goto(self, "restoreFailed") /\ UNCHANGED card /\ Frame

RestoreOld(self) ==
  \/ ProveBak(self)
  \/ Remove(self, "clearAside", "aside", "moveAside")
  \/ MoveAside(self)
  \/ CopyTree(self, "copyAside", tree["live"], "aside", "clearLive", "restoreFailed", "copy")
  \/ Remove(self, "clearLive", "live", "liveCleared")
  \/ LiveCleared(self)
  \/ Remove(self, "forgetAside", "aside", "restoreFailed")
  \/ Rename(self, "place", "bak", "live", "checkPlaced", "copyPlace")
  \/ CopyTree(self, "copyPlace", tree["bak"], "live", "checkPlaced", "undoPlace", "copy")
  \/ CheckPlaced(self)
  \/ Remove(self, "undoPlace", "live", "bringBack")
  \/ BringBack(self)
  \/ CopyTree(self, "copyBack", tree["aside"], "live", "restoreFailed", "restoreFailed", "copy")
  \/ RestoreFailed(self)
  \/ Remove(self, "dropAside", "aside", "dropOldBak")
  \/ Remove(self, "dropOldBak", "bak", "dropStaging")

(* saveAll(remaining), whose failure is only logged. *)
Settle(self) ==
  /\ pc[self] = "settle"
  /\ LET left == IF mayClearJournalRecord(act[self], bak[self], hr[self])
                 THEN NoRec ELSE rec[self]
     IN WriteJournal(left) \/ JournalWriteFails(left)
  /\ Goto(self, back[self])
  /\ UNCHANGED <<tree, registry>> /\ Frame

Recover(self) ==
  \/ LoadRecord(self)
  \/ DropDir(self, "dropBak", "bak", "dropBakOk", "dropStaging")
  \/ DropDir(self, "dropStaging", "staging", "dropStagingOk", "settle")
  \/ CommitNew(self) \/ RestoreOld(self) \/ Settle(self)

-----------------------------------------------------------------------------
(* Mutant: no check for a downgrade. *)
BeginAnyInstall ==
  /\ pc["worker"] = "begin"
  /\ IF offer = registry \/ journal # NoRec
     THEN Goto("worker", "idle") /\ UNCHANGED rec
     ELSE /\ rec' = [rec EXCEPT !["worker"] =
                      [phase |-> "Idle", prior |-> registry, new |-> offer]]
          /\ Goto("worker", "clearStaging")
  /\ UNCHANGED <<card, back, act, bak, hr, hadLive, offer, fate>>

(* install, once probe has recovered and accepted the package.              *)
BeginInstall ==
  /\ pc["worker"] = "begin"
  /\ IF \/ offer < registry
        \/ offer = registry /\ "reinstall" \notin Env
        \/ journal # NoRec /\ "retry" \notin Env
     THEN Goto("worker", "idle") /\ UNCHANGED rec
     ELSE /\ rec' = [rec EXCEPT !["worker"] =
                      [phase |-> "Idle", prior |-> registry, new |-> offer]]
          /\ Goto("worker", "clearStaging")
  /\ UNCHANGED <<card, back, act, bak, hr, hadLive, offer, fate>>

Staged == IF hadPrior(rec["worker"]) THEN "markQuarantined" ELSE "clearBak"

(* promoteStaging with quarantineLive *)
CheckLive ==
  /\ pc["worker"] = "checkLive"
  /\ hadLive' = Exists("live")
  /\ Goto("worker", IF Exists("live") THEN "quarantine" ELSE "promote")
  /\ UNCHANGED <<card, rec, back, act, bak, hr, offer, fate>>

VerifyBak ==
  /\ pc["worker"] = "verifyBak"
  /\ Goto("worker", IF HasEntry(tree["bak"]) THEN "retireLive" ELSE "dropCopy")
  /\ UNCHANGED card /\ Frame

UndoPromote ==
  /\ pc["worker"] = "undoPromote"
  /\ IF hadLive /\ Exists("bak")
     THEN Rename("worker", "undoPromote", "bak", "live", "abandon", "copyUndo")
     ELSE Goto("worker", "abandon") /\ UNCHANGED card /\ Frame

PromoteStaging ==
  \/ Remove("worker", "clearBak", "bak", "checkLive")
  \/ CheckLive
  \/ Rename("worker", "quarantine", "live", "bak", "promote", "copyBak")
  \/ CopyTree("worker", "copyBak", tree["live"], "bak", "verifyBak", "dropCopy", "copy")
  \/ VerifyBak
  \/ Remove("worker", "dropCopy", "bak", "abandon")
  \/ Remove("worker", "retireLive", "live", "promote")
  \/ Rename("worker", "promote", "staging", "live", "markSwitched", "copyLive")
  \/ CopyTree("worker", "copyLive", tree["staging"], "live", "dropStaged", "undoLive", "copy")
  \/ Remove("worker", "dropStaged", "staging", "markSwitched")
  \/ Remove("worker", "undoLive", "live", "undoPromote")
  \/ UndoPromote
  \/ CopyTree("worker", "copyUndo", tree["bak"], "live", "abandon", "abandon", "copy")
  \/ Remove("worker", "abandon", "staging", "idle")

CommitRegistry ==
  /\ pc["worker"] = "saveRegistry"
  /\ \/ SaveRegistry(rec["worker"].new) /\ Goto("worker", "markCommitted")
     \/ RegistrySaveFails /\ Goto("worker", "idle")
  /\ UNCHANGED <<tree, journal>> /\ Frame

Install ==
  \/ BeginInstall
  \/ Remove("worker", "clearStaging", "staging", "markStaging")
  \/ SetPhase("worker", "markStaging", "Staging", "extract", "idle")
  \/ CopyTree("worker", "extract", Whole(rec["worker"].new), "staging",
              "markStaged", "discard", "extract")
  \/ SetPhase("worker", "markStaged", "Staged", Staged, "discard")
  \/ SetPhase("worker", "markQuarantined", "Quarantined", "clearBak", "discard")
  \/ PromoteStaging
  \/ SetPhase("worker", "markSwitched", "LiveSwitched", "saveRegistry", "idle")
  \/ CommitRegistry
  \/ SetPhase("worker", "markCommitted", "RegistryCommitted", "finish", "finish")
  \/ Remove("worker", "finish", "bak", "forget")
  \/ DropRecord("worker", "forget")
  \/ Remove("worker", "discard", "staging", "forget")

-----------------------------------------------------------------------------
(* The ui: entering the app list runs ensureLayout (AppListActivity::       *)
(* reload); uninstalling and installing start from the list.                *)
OpenAppList ==
  /\ pc["ui"] \in {"off", "list"}
  /\ pc' = [pc EXCEPT !["ui"] = "recover"]
  /\ back' = [back EXCEPT !["ui"] = "list"]
  /\ UNCHANGED <<card, rec, act, bak, hr, hadLive, offer, fate>>

StartInstall(v) ==
  /\ pc["ui"] \in {"off", "list"} /\ pc["worker"] = "idle"
  /\ pc' = [ui |-> "waiting", worker |-> "recover"]
  /\ offer' = v
  /\ back' = [back EXCEPT !["worker"] = "begin"]
  /\ UNCHANGED <<card, rec, act, bak, hr, hadLive, fate>>

(* doInstall polls the worker, for 60 s at most; the list then reloads.     *)
InstallReturns ==
  /\ pc["ui"] = "waiting"
  /\ pc["worker"] = "idle" \/ "timeout" \in Env
  /\ pc' = [pc EXCEPT !["ui"] = "recover"]
  /\ back' = [back EXCEPT !["ui"] = "list"]
  /\ UNCHANGED <<card, rec, act, bak, hr, hadLive, offer, fate>>

Uninstall ==
  /\ pc["ui"] = "list" /\ registry # 0
  /\ \/ SaveRegistry(0) /\ Goto("ui", "removeLive")
     \/ RegistrySaveFails /\ Goto("ui", "recover")
  /\ UNCHANGED <<tree, journal>> /\ Frame

RemoveTrees == \/ Remove("ui", "removeLive", "live", "removeStaging")
               \/ Remove("ui", "removeStaging", "staging", "removeBak")
               \/ Remove("ui", "removeBak", "bak", "recover")

Crash ==
  /\ PowerCut
  /\ pc # [ui |-> "off", worker |-> "idle"]
  /\ Uninstalling("ui") => "partialUninstall" \in Env
  /\ pc' = [ui |-> "off", worker |-> "idle"]
  /\ rec' = [p \in Proc |-> NoRec] /\ back' = [p \in Proc |-> "idle"]
  /\ act' = [p \in Proc |-> "Retain"] /\ bak' = [p \in Proc |-> FALSE]
  /\ hr' = [p \in Proc |-> AllOk] /\ hadLive' = FALSE /\ offer' = 1
  /\ UNCHANGED card

Work(self) == Recover(self) \/ IF self = "ui" THEN RemoveTrees ELSE Install

Next == \/ \E p \in Proc : Work(p)
        \/ OpenAppList \/ (\E v \in Version : StartInstall(v)) \/ InstallReturns \/ Uninstall
        \/ Crash

Spec == Init /\ [][Next]_vars

(* FreeRTOS runs both tasks, and doInstall polls every 20 ms.               *)
FairSpec == Spec /\ (\A p \in Proc : WF_vars(Work(p))) /\ WF_vars(InstallReturns)

-----------------------------------------------------------------------------
(* An app the registry lists has a whole copy on the card, of the listed    *)
(* version or of the one an open transaction is switching to, where a       *)
(* recovery can find it: no install, upgrade, uninstall, recovery, failed   *)
(* call or power cut loses the last one (M4xInstallTxn.h:102, "restore old  *)
(* unless the new registry commit is known durable").                       *)
CopyKept ==
  registry # 0 =>
    \E d \in {"live", "bak", "aside"}, v \in {registry, journal.new} \ {0} : tree[d] = Whole(v)

(* When nothing runs and no transaction is open, the app list starts what   *)
(* the registry promises: live holds the listed version and all its files.  *)
AtRest == pc["ui"] \in {"off", "list"} /\ pc["worker"] = "idle" /\ journal = NoRec
Launchable == AtRest /\ registry # 0 => tree["live"] = Whole(registry)

(* The registry gets an entry for a version only while live holds that      *)
(* version whole: neither install nor a recovery lists a half-written app,  *)
(* nor a new version over the files of an old one (M4xInstallTxn.h:135-141, *)
(* "new metadata must not be written over possibly-old live files").        *)
EntryMatchesLive == [][registry' \notin {registry, 0} => tree["live"] = Whole(registry')]_vars

(* What the Staged phase says, "staging complete" (M4xInstallTxn.h:18):     *)
(* from there until it is promoted, nothing else touches the staging        *)
(* directory of a running install.                                          *)
StagedComplete ==
  journal.phase \in {"Staged", "Quarantined"} /\ pc["worker"] \in {"clearBak", "checkLive", "promote"}
    => tree["staging"] = Whole(journal.new)

(* Where no call fails, one visit to the app list settles what an install   *)
(* left open, wherever the power was cut: the recovery comes to an end and  *)
(* no record is retained (M4xInstallTxn.h:145-186).                         *)
VisitSettles == (pc["ui"] = "recover" /\ faults = {}) ~> pc["ui"] = "off" \/ (pc["ui"] = "list" /\ journal = NoRec)

(* The registry never goes back to an older version, and an uninstalled app *)
(* returns only through an install of its own: a recovery that lists an app *)
(* again was finishing a first install (M4xInstaller.cpp:768-791).          *)
NoResurrection ==
  [][\/ registry' \in {registry, 0}
     \/ /\ registry' > registry
        /\ registry = 0 => \E p \in Proc : /\ pc[p] \in {"commit", "saveRegistry"}
                                           /\ ~hadPrior(rec[p])]_vars
=============================================================================
