---------------------------- MODULE M4xInstallTxn ----------------------------
(* The pure recovery policy of apps/M4xInstallTxn.h.  A record says how far *)
(* an install had got; a snapshot says which directories exist and whether  *)
(* the registry already lists the new version.  Versions are version codes, *)
(* 0 for none; a record's entry point is never empty (makeJournalBase).     *)
EXTENDS Integers

Phase == {"Idle", "Staging", "Staged", "Quarantined", "LiveSwitched", "RegistryCommitted"}

Records(Version) == [phase : Phase \ {"Idle"}, prior : Version \cup {0}, new : Version]

hadPrior(rec) == rec.prior # 0

Snapshot == [live : BOOLEAN, bak : BOOLEAN, matchesNew : BOOLEAN]

RecoveryAction == {"DropStaging", "RestoreOld", "CommitNew", "DropBak", "Clear", "Retain"}

decideStaging(rec, fs) ==
  IF hadPrior(rec) /\ ~fs.live /\ fs.bak THEN "RestoreOld" ELSE "DropStaging"

(* Mutant: an upgrade is committed like a first install. *)
decideStagedAny(rec, fs) == IF fs.live THEN "CommitNew" ELSE decideStaging(rec, fs)

decideStaged(rec, fs) ==
  IF ~hadPrior(rec) /\ fs.live /\ rec.new > 0 THEN "CommitNew" ELSE decideStaging(rec, fs)

(* Mutant: the quarantined old version is left where it is. *)
decideQuarantinedDrop(fs) == "DropStaging"

decideQuarantined(fs) == IF fs.bak THEN "RestoreOld" ELSE "DropStaging"

decideLiveSwitched(rec, fs) ==
  IF hadPrior(rec) /\ ~fs.bak THEN "Retain"
  ELSE IF fs.live /\ rec.new > 0 THEN "CommitNew"
  ELSE IF fs.bak THEN "RestoreOld"
  ELSE IF fs.live THEN "Retain" ELSE "DropStaging"

decideRecovery(rec, fs) ==
  IF rec.phase = "Idle" THEN "Clear"
  ELSE IF fs.matchesNew THEN "DropBak"
  ELSE CASE rec.phase = "Staging"           -> decideStaging(rec, fs)
         [] rec.phase = "Staged"            -> decideStaged(rec, fs)
         [] rec.phase = "Quarantined"       -> decideQuarantined(fs)
         [] rec.phase = "LiveSwitched"      -> decideLiveSwitched(rec, fs)
         [] rec.phase = "RegistryCommitted" ->
              IF fs.live /\ rec.new > 0 THEN "CommitNew" ELSE "Retain"

afterFailedRegistryCommit(bakExists) == IF bakExists THEN "RestoreOld" ELSE "Retain"

(* What the hooks of recoverAll reported, each TRUE unless it ran and       *)
(* failed.                                                                  *)
HookResults == [dropStagingOk : BOOLEAN, restoreOk : BOOLEAN,
                commitOk : BOOLEAN, dropBakOk : BOOLEAN]

(* Mutant: a first install, which has no bak to drop, never clears. *)
mayClearWithBak(act, bakExists, hr) ==
  CASE act = "DropStaging" -> hr.dropStagingOk
    [] act = "RestoreOld"  -> hr.restoreOk
    [] act = "CommitNew"   -> bakExists /\ hr.dropBakOk
    [] act = "DropBak"     -> hr.dropBakOk
    [] OTHER               -> act = "Clear"

mayClearJournalRecord(act, bakExists, hr) ==
  CASE act = "DropStaging" -> hr.dropStagingOk
    [] act = "RestoreOld"  -> hr.restoreOk
    [] act = "CommitNew"   -> IF hr.commitOk THEN bakExists => hr.dropBakOk
                                             ELSE bakExists /\ hr.restoreOk
    [] act = "DropBak"     -> hr.dropBakOk
    [] act = "Clear"       -> TRUE
    [] OTHER               -> FALSE
=============================================================================
