-------------------------- MODULE InstallerProofs --------------------------
(* Install, upgrade, uninstall and recovery on a card whose renames and     *)
(* removals work, with any failure of the saves of the journal and of the   *)
(* registry, of the copies and of the extraction of a package, and any      *)
(* power cuts: a listed app keeps a whole copy and launches when nothing is *)
(* open, and the registry lists only what is live and never goes back.      *)
EXTENDS M4xInstaller, TLAPS

(* The calls that may fail here.                                            *)
Failing == FaultKinds \ {"rename", "remove"}

-----------------------------------------------------------------------------
(* The card, whatever the processes are doing.                              *)

Old(v) == IF v = 0 THEN NoDir ELSE Whole(v)
Live(t) == tree["live"] = t
Clean == tree["bak"] = NoDir /\ tree["staging"] = NoDir

(* live is what the registry lists, or an uninstall is taking it away.      *)
Settled == tree["bak"] = NoDir /\ Live(Old(registry))
Resting == tree["bak"] = NoDir /\ (Live(Old(registry)) \/ pc["ui"] = "removeLive")

(* The old version, if there is one, is in bak and is still the listed one; *)
(* live is the new one, or not there yet or any more.                       *)
Kept(r) == registry = r.prior /\ tree["bak"] = Old(r.prior)
Switched(r) == Kept(r) /\ Live(Whole(r.new))
Parted(r) == Kept(r) /\ r.prior # 0 /\ (Live(Whole(r.new)) \/ Live(NoDir))

(* The new version is live and listed; bak may still be there, in part.     *)
Committed(r) == registry = r.new /\ Live(Whole(r.new)) /\ tree["staging"] = NoDir

(* The records of which a recovery may commit the new version.              *)
Switching(r) == r.phase = "LiveSwitched" \/ (r.phase = "Staged" /\ r.prior = 0)

OpenCard(r) ==
  /\ r.prior < r.new
  /\ r.phase \in {"LiveSwitched", "RegistryCommitted"} => tree["staging"] = NoDir
  /\ \/ Resting /\ registry \in {0, r.prior} /\ (r.phase = "RegistryCommitted" => registry = 0)
     \/ Parted(r) /\ r.phase \in {"Quarantined", "LiveSwitched"}
     \/ Switched(r) /\ r.prior = 0 /\ Switching(r) /\ tree["staging"] = NoDir
     \/ Committed(r) /\ (Switching(r) \/ r.phase = "RegistryCommitted")

CardInv == IF journal = NoRec THEN Clean /\ Resting ELSE OpenCard(journal)

-----------------------------------------------------------------------------
(* The recovery policy answers every record, of any versions, and every     *)
(* snapshot, and clears no record that it answers with Retain.              *)
LEMMA PolicyAnswers ==
  ASSUME NEW Codes, NEW r \in Records(Codes), NEW fs \in Snapshot, NEW h \in HookResults
  PROVE  LET action == decideRecovery(r, fs)
         IN /\ action \in RecoveryAction
            /\ mayClearJournalRecord(action, fs.bak, h) => action # "Retain"
<1>1. decideRecovery(r, fs) \in RecoveryAction
  BY DEF Records, Phase, decideRecovery, decideStaging, decideStaged, decideQuarantined,
     decideLiveSwitched, RecoveryAction
<1>2. ~mayClearJournalRecord("Retain", fs.bak, h)
  BY DEF mayClearJournalRecord
<1> QED
  BY <1>1, <1>2

(* An upgrade is committed only once its new version is in live, and from a *)
(* switched record only while the old one is still in bak.                  *)
LEMMA PolicyCommits ==
  ASSUME NEW Codes, NEW r \in Records(Codes), NEW fs \in Snapshot, hadPrior(r),
         decideRecovery(r, fs) = "CommitNew"
  PROVE  /\ fs.live /\ r.phase \in {"LiveSwitched", "RegistryCommitted"}
         /\ r.phase = "LiveSwitched" => fs.bak
BY DEF Records, Phase, decideRecovery, decideStaging, decideStaged, decideQuarantined,
   decideLiveSwitched, hadPrior

-----------------------------------------------------------------------------
(* The calls the two processes reach.                                       *)

Recovering == {"recover", "dropStaging", "dropBak", "commit", "prove", "clearAside", "moveAside",
               "place", "checkPlaced", "dropAside", "dropOldBak", "settle"}
Installing == {"begin", "clearStaging", "markStaging", "extract", "markStaged", "markQuarantined",
               "discard", "clearBak", "checkLive", "quarantine", "promote", "markSwitched",
               "saveRegistry", "markCommitted", "finish", "forget"}
Removing == {"removeLive", "removeStaging", "removeBak"}
AtUi == {"off", "list", "waiting"} \cup Recovering \cup Removing
AtWorker == {"idle"} \cup Recovering \cup Installing

Contents == Torn..MaxVersion
Directory == {NoDir} \cup [entry : Contents, rest : Contents]

Typed == /\ tree \in [Dir -> Directory] /\ registry \in 0..MaxVersion /\ journal \in Record
         /\ pc \in [Proc -> AtUi \cup AtWorker] /\ pc["ui"] \in AtUi /\ pc["worker"] \in AtWorker
         /\ rec \in [Proc -> [phase : Phase, prior : 0..MaxVersion, new : 0..MaxVersion]]
         /\ back \in [Proc -> {"idle", "list", "begin"}]
         /\ act \in [Proc -> RecoveryAction] /\ bak \in [Proc -> BOOLEAN]
         /\ hr \in [Proc -> HookResults] /\ offer \in Version

(* The ui waits while the worker runs, and each recovers for itself.        *)
Parked == /\ pc["worker"] # "idle" => pc["ui"] = "waiting"
          /\ pc["ui"] \in {"list"} \cup Recovering \cup Removing => back["ui"] = "list"
          /\ pc["worker"] \in Recovering => back["worker"] = "begin"

(* What a recovery leaves: an open first install may keep its live files.   *)
Visited == Clean /\ (registry # 0 => Settled)
MayClear(p) == mayClearJournalRecord(act[p], bak[p], hr[p])

Recovery(p) ==
  /\ pc[p] \in Recovering \ {"recover"} => rec[p] = journal /\ journal # NoRec
  /\ pc[p] = "dropBak" => Committed(journal)
  /\ pc[p] = "dropStaging" => Settled
  /\ pc[p] = "commit" => /\ Switched(journal) /\ Switching(journal) /\ tree["staging"] = NoDir
                         /\ act[p] = "CommitNew" /\ bak[p] = (journal.prior # 0)
  /\ pc[p] \in {"prove", "clearAside", "moveAside", "place"} => Parted(journal)
  /\ pc[p] = "moveAside" => tree["aside"] = NoDir
  /\ pc[p] = "place" => Live(NoDir)
  /\ pc[p] \in {"checkPlaced", "dropAside", "dropOldBak"} => Settled /\ registry # 0
  /\ pc[p] = "settle" => Visited /\ (MayClear(p) => Settled)

(* The install, with the record it works on.                                *)
In(S) == pc["worker"] \in S
Begun == {"clearStaging", "markStaging"}
Unswitched == {"extract", "markStaged", "markQuarantined", "clearBak", "checkLive", "quarantine"}
Placing == {"clearBak", "checkLive", "quarantine", "promote", "markSwitched"}

Installation ==
  LET r == rec["worker"] IN
  /\ In(Begun \cup {"begin"}) => Visited
  /\ In(Begun) => journal = NoRec
  /\ In(Begun \cup Unswitched \cup Placing \cup {"discard", "saveRegistry"}) =>
       registry = r.prior /\ registry < r.new
  /\ In(Unswitched \cup Placing \cup {"saveRegistry", "markCommitted"}) => journal = r /\ r # NoRec
  /\ In(Unswitched \cup {"discard", "forget"}) => Settled
  /\ In({"extract", "markStaged"}) => r.phase = "Staging"
  /\ In({"markQuarantined"}) => r.phase = "Staged" /\ r.prior # 0
  /\ In(Placing) => r.phase = IF r.prior = 0 THEN "Staged" ELSE "Quarantined"
  /\ In(Unswitched \cup {"promote"}) /\ ~In({"extract"}) => tree["staging"] = Whole(r.new)
  /\ In({"quarantine"}) => r.prior # 0
  /\ In({"promote"}) => Kept(r) /\ Live(NoDir)
  /\ In({"markSwitched", "saveRegistry"}) => Switched(r) /\ tree["staging"] = NoDir
  /\ In({"saveRegistry", "markCommitted"}) => r.phase = "LiveSwitched"
  /\ In({"markCommitted", "finish"}) => Committed(r)
  /\ In({"finish"}) => /\ r.phase = "RegistryCommitted"
                       /\ journal \in {r, [r EXCEPT !.phase = "LiveSwitched"]}
  /\ In({"discard"}) => /\ journal # NoRec /\ journal.prior = r.prior /\ journal.new = r.new
                        /\ journal.phase \in {"Staging", "Staged", "Quarantined"}
  /\ In({"forget"}) => tree["staging"] = NoDir

(* The ui between visits, and while it uninstalls.                          *)
Removal == /\ pc["ui"] = "list" => Visited
           /\ pc["ui"] \in Removing => registry = 0 /\ Clean
           /\ pc["ui"] \in {"removeStaging", "removeBak"} => Settled

InstallInv == /\ faults \subseteq Failing
              /\ Typed /\ Parked /\ CardInv
              /\ (\A p \in Proc : Recovery(p)) /\ Installation /\ Removal

-----------------------------------------------------------------------------
(* Directories: what the calls make of them. *)

LEMMA Dirs == "live" \in Dir /\ "bak" \in Dir /\ "staging" \in Dir /\ "aside" \in Dir
BY DEF Dir

LEMMA NoDirApart == ASSUME NEW e \in Contents, NEW r \in Contents
                    PROVE  NoDir # [entry |-> e, rest |-> r]
BY InstallerAssumption DEF InstallerAssumption, Contents, Torn

LEMMA WholeDirectory ==
  ASSUME NEW v \in Version
  PROVE  Whole(v) \in Directory /\ Whole(v) # NoDir /\ v \in Contents /\ HasEntry(Whole(v))
<1>1. v \in Contents
  BY InstallerAssumption DEF InstallerAssumption, Version, Contents, Torn
<1> QED
  BY <1>1, NoDirApart DEF Whole, Directory, HasEntry, Missing, Version

LEMMA OldDirectory == \A v \in 0..MaxVersion : Old(v) \in Directory /\ (Old(v) = NoDir <=> v = 0)
BY WholeDirectory DEF Old, Version, Directory

LEMMA ContentsHave == Missing \in Contents /\ Torn \in Contents
BY InstallerAssumption DEF InstallerAssumption, Contents, Missing, Torn

LEMMA ShrinkTyped == ASSUME NEW t \in Directory, t # NoDir PROVE Shrink(t) \in Directory
BY ContentsHave DEF Shrink, Directory

LEMMA GrowTyped ==
  ASSUME NEW t \in Directory, NEW v \in Version PROVE Grow(t, Whole(v)) \in Directory
BY ContentsHave, WholeDirectory DEF Grow, Whole, Shell, Directory

(* A copy or an extraction of a whole source ends when the directory holds  *)
(* it whole.                                                                *)
LEMMA CopyDone ==
  ASSUME NEW t \in Directory, NEW v \in Version
  PROVE  /\ Complete(Whole(v))
         /\ ~MoreToCopy(t, Whole(v)) => t = Whole(v)
<1>1. v # Missing /\ Whole(v) # NoDir
  BY WholeDirectory DEF Version, Missing
<1> QED
  BY <1>1 DEF Complete, MoreToCopy, Whole, Directory

(* Where removals do not fail, a removal ends when the directory is gone.   *)
LEMMA RemovalWorks ==
  ASSUME InstallInv, NEW self, NEW at, NEW d \in Dir, NEW next, Remove(self, at, d, next)
  PROVE  /\ pc[self] = at /\ UNCHANGED <<registry, journal, local, fate>>
         /\ \/ /\ tree[d] # NoDir /\ tree' = [tree EXCEPT ![d] = Shrink(tree[d])] /\ UNCHANGED pc
            \/ /\ tree[d] = NoDir /\ UNCHANGED tree /\ pc' = [pc EXCEPT ![self] = next]
BY DEF InstallInv, Failing, Remove, RemoveSome, RemovalEnds, Exists, MayFail, Goto, Frame

(* A rename that finds its source, and nothing at its destination, works.   *)
LEMMA RenameWorks ==
  ASSUME InstallInv, NEW self, NEW at, NEW src \in Dir, NEW dst \in Dir, NEW ok, NEW refused,
         src # dst,
         Rename(self, at, src, dst, ok, refused), tree[src] # NoDir, tree[dst] = NoDir
  PROVE  /\ pc[self] = at /\ UNCHANGED <<registry, journal, local, fate>>
         /\ tree' \in [Dir -> Directory] /\ tree'[dst] = tree[src] /\ tree'[src] = NoDir
         /\ \A e \in Dir \ {src, dst} : tree'[e] = tree[e]
         /\ pc' = [pc EXCEPT ![self] = ok]
<1>1. /\ pc[self] = at /\ UNCHANGED <<registry, journal, local, fate>>
      /\ tree' = [tree EXCEPT ![dst] = tree[src], ![src] = NoDir]
      /\ pc' = [pc EXCEPT ![self] = ok]
  BY DEF InstallInv, Failing, Rename, Exists, MayFail, Goto, Frame
<1>2. tree \in [Dir -> Directory]
  BY DEF InstallInv, Typed
<1>3. NoDir \in Directory /\ tree[src] \in Directory
  BY <1>2 DEF Directory
<1> QED
  BY <1>1, <1>2, <1>3

LEMMA RecordTyped ==
  ASSUME NEW r \in Record, r # NoRec
  PROVE  /\ r \in Records(Version) /\ r.phase # "Idle" /\ r.new \in Version /\ r.new \in Nat \ {0}
         /\ r.prior \in 0..MaxVersion /\ r.prior \in Nat
         /\ r \in [phase : Phase, prior : 0..MaxVersion, new : 0..MaxVersion]
<1>1. r \in Records(Version)
  BY DEF Record
<1>2. Version \cup {0} \subseteq 0..MaxVersion
  BY InstallerAssumption DEF Version, InstallerAssumption
<1>3. Version \subseteq Nat \ {0}
  BY InstallerAssumption DEF Version, InstallerAssumption
<1>4. r.phase \in Phase /\ r.phase # "Idle" /\ r.new \in Version /\ r.prior \in Version \cup {0}
      /\ r = [phase |-> r.phase, prior |-> r.prior, new |-> r.new]
  BY <1>1 DEF Records
<1> QED
  BY <1>1, <1>2, <1>3, <1>4

LEMMA RemovalKeeps ==
  ASSUME InstallInv, NEW self, NEW at, NEW d \in Dir, NEW next, Remove(self, at, d, next)
  PROVE  /\ pc[self] = at /\ UNCHANGED <<registry, journal, local, fate>>
         /\ tree' \in [Dir -> Directory] /\ \A e \in Dir \ {d} : tree'[e] = tree[e]
         /\ \/ pc' = [pc EXCEPT ![self] = at]
            \/ tree[d] = NoDir /\ tree' = tree /\ pc' = [pc EXCEPT ![self] = next]
<1>1. pc \in [Proc -> AtUi \cup AtWorker] /\ tree \in [Dir -> Directory]
  BY DEF InstallInv, Typed
<1>2. tree[d] # NoDir => Shrink(tree[d]) \in Directory
  BY <1>1, ShrinkTyped
<1> QED
  BY <1>1, <1>2, RemovalWorks

-----------------------------------------------------------------------------
(* The recovery.  A process that recovers runs alone. *)

LEMMA Alone ==
  ASSUME InstallInv, NEW p \in Proc, NEW q \in Proc, p # q,
         pc[p] \in Recovering \cup Installing \cup Removing
  PROVE  pc[q] \in {"idle", "waiting"} /\ pc["ui"] # "off" /\ pc["ui"] # "list"
BY DEF InstallInv, Parked, Typed, Proc, AtUi, AtWorker, Recovering, Installing, Removing

(* What each answer of the policy finds on the card.                        *)
LEMMA Decided ==
  ASSUME InstallInv, NEW p \in Proc, pc[p] = "recover", journal # NoRec,
         NEW a, a = decideRecovery(journal, [live |-> Exists("live"), bak |-> Exists("bak"),
                                             matchesNew |-> matchesNew(journal)])
  PROVE  /\ a \in {"DropStaging", "RestoreOld", "CommitNew", "DropBak", "Retain"}
         /\ a = "DropStaging" => Settled
         /\ a = "RestoreOld" => Parted(journal)
         /\ a = "CommitNew" => /\ Switched(journal) /\ Switching(journal) /\ tree["staging"] = NoDir
                               /\ Exists("bak") = (journal.prior # 0)
         /\ a = "DropBak" => Committed(journal)
         /\ a = "Retain" => Visited
<1> DEFINE r == journal
           fs == [live |-> Exists("live"), bak |-> Exists("bak"),
                  matchesNew |-> matchesNew(journal)]
<1>1. /\ r \in Records(Version) /\ r.phase # "Idle" /\ r.new > 0 /\ r.new \in Version
      /\ r.prior \in 0..MaxVersion /\ r.prior \in Nat /\ r.new \in Nat /\ r.prior < r.new
  BY RecordTyped DEF InstallInv, Typed, CardInv, OpenCard
<1>2. pc["ui"] # "removeLive"
  BY DEF InstallInv, Parked, Proc
<1>3. Whole(r.new) # NoDir /\ Old(r.new) = Whole(r.new) /\ (Old(r.prior) = NoDir <=> r.prior = 0)
      /\ (Old(registry) = NoDir <=> registry = 0) /\ Old(0) = NoDir
  BY <1>1, WholeDirectory, OldDirectory DEF InstallInv, Typed, Old
<1>4. OpenCard(r)
  BY DEF InstallInv, CardInv
<1>5. CASE Resting /\ registry \in {0, r.prior} /\ (r.phase = "RegistryCommitted" => registry = 0)
  <2>1. ~Exists("bak") /\ ~matchesNew(r) /\ Settled /\ (Exists("live") <=> registry # 0)
    BY <1>1, <1>2, <1>3, <1>5 DEF Resting, Settled, Live, Exists, matchesNew
  <2>2. ~fs.bak /\ ~fs.matchesNew /\ (fs.live <=> registry # 0)
    BY <2>1
  <2> QED
    BY <2>1, <2>2, <1>1, <1>4, <1>5, <1>3
       DEF decideRecovery, decideStaging, decideStaged, decideQuarantined, decideLiveSwitched,
           hadPrior, Records, Phase, OpenCard, Visited, Clean, Settled, Live, Switched, Switching,
           Kept, Exists
<1>6. CASE Parted(r) /\ r.phase \in {"Quarantined", "LiveSwitched"}
  <2>1. Exists("bak") /\ ~matchesNew(r) /\ r.prior # 0
    BY <1>1, <1>3, <1>6 DEF Parted, Kept, Exists, matchesNew
  <2>2. fs.bak /\ ~fs.matchesNew /\ (fs.live => Live(Whole(r.new)))
    BY <2>1, <1>6 DEF Parted, Exists, Live
  <2> QED
    BY <1>1, <1>4, <1>6, <2>1, <2>2
       DEF decideRecovery, decideQuarantined, decideLiveSwitched, hadPrior, OpenCard, Parted,
           Kept, Switched, Switching
<1>7. CASE Switched(r) /\ r.prior = 0 /\ Switching(r) /\ tree["staging"] = NoDir
  BY <1>1, <1>3, <1>7 DEF decideRecovery, decideStaged, decideLiveSwitched, hadPrior, Kept, Live,
     Switched, Switching, Exists, matchesNew
<1>8. CASE Committed(r) /\ (Switching(r) \/ r.phase = "RegistryCommitted")
  BY <1>1, <1>8 DEF decideRecovery, Committed, matchesNew
<1> QED
  BY <1>4, <1>5, <1>6, <1>7, <1>8 DEF OpenCard

(* A step of a recovery that goes on: what is left to show.                 *)
RecoveryTyped == /\ tree \in [Dir -> Directory] /\ registry \in 0..MaxVersion /\ journal \in Record
                 /\ rec \in [Proc -> [phase : Phase, prior : 0..MaxVersion, new : 0..MaxVersion]]
                 /\ act \in [Proc -> RecoveryAction] /\ bak \in [Proc -> BOOLEAN]
                 /\ hr \in [Proc -> HookResults]

LEMMA RecoveryGoesOn ==
  ASSUME InstallInv, NEW p \in Proc, NEW n \in Recovering \ {"recover"}, pc[p] \in Recovering,
         pc' = [pc EXCEPT ![p] = n], UNCHANGED <<back, offer, fate>>,
         RecoveryTyped', CardInv', Recovery(p)'
  PROVE  InstallInv'
<1>1. \A q \in Proc : q # p => pc'[q] \in {"idle", "waiting"} /\ pc'[q] = pc[q]
  BY Alone DEF InstallInv, Typed
<1>2. pc'[p] = n /\ pc'[p] \in Recovering
  BY DEF InstallInv, Typed
<1>3. \A q \in Proc : Recovery(q)'
  BY <1>1 DEF Recovery, Recovering
<1>4. Installation' /\ Removal' /\ Parked'
  BY <1>1, <1>2 DEF Installation, Removal, Parked, In, Begun, Unswitched, Placing, Recovering,
     Removing, Proc, InstallInv
<1> QED
  BY <1>1, <1>2, <1>3, <1>4
     DEF InstallInv, Typed, RecoveryTyped, AtUi, AtWorker, Proc, fate, Recovering

LEMMA LoadRecordInv ==
  ASSUME InstallInv, NEW p \in Proc, LoadRecord(p) PROVE InstallInv'
<1> DEFINE a == decideRecovery(journal, [live |-> Exists("live"), bak |-> Exists("bak"),
                                         matchesNew |-> matchesNew(journal)])
<1>1. /\ pc[p] = "recover" /\ UNCHANGED <<tree, registry, journal, back, hadLive, offer, fate>>
      /\ rec' = [rec EXCEPT ![p] = IF journal = NoRec THEN @ ELSE journal]
  BY DEF LoadRecord, card
<1>2. pc["ui"] # "removeLive" /\ (p = "worker" => pc["ui"] = "waiting")
      /\ (p = "ui" => pc["worker"] = "idle")
  BY <1>1 DEF InstallInv, Parked, Proc
<1>3. CASE journal = NoRec
  <2>1. Visited
    BY <1>2, <1>3 DEF InstallInv, CardInv, Visited, Resting, Settled, Clean
  <2>2. pc' = [pc EXCEPT ![p] = back[p]] /\ UNCHANGED <<act, bak, hr>>
        /\ back[p] = (IF p = "ui" THEN "list" ELSE "begin")
    BY <1>1, <1>3 DEF LoadRecord, Goto, InstallInv, Parked, Recovering, Proc
  <2>3. rec' = rec
    BY <1>1, <1>3 DEF InstallInv, Typed
  <2> QED
    BY <2>1, <2>2, <2>3, <1>1, <1>2, <1>3
       DEF InstallInv, Typed, Parked, CardInv, Recovery, Installation, Removal, fate, Proc,
           Recovering, Installing, Removing, AtUi, AtWorker, Visited, Settled, Clean, Live,
           Resting, In, Begun, Unswitched, Placing
<1>4. CASE journal # NoRec
  <2>1. /\ act' = [act EXCEPT ![p] = a] /\ bak' = [bak EXCEPT ![p] = Exists("bak")]
        /\ hr' = [hr EXCEPT ![p] = AllOk] /\ pc' = [pc EXCEPT ![p] = NextHook(a, Exists("bak"))]
    BY <1>1, <1>4 DEF LoadRecord, Goto
  <2>2. /\ a \in {"DropStaging", "RestoreOld", "CommitNew", "DropBak", "Retain"}
        /\ a = "DropStaging" => Settled
        /\ a = "RestoreOld" => Parted(journal)
        /\ a = "CommitNew" => /\ Switched(journal) /\ Switching(journal) /\ tree["staging"] = NoDir
                              /\ Exists("bak") = (journal.prior # 0)
        /\ a = "DropBak" => Committed(journal)
        /\ a = "Retain" => Visited
    BY <1>1, <1>4, Decided
  <2> HIDE DEF a
  <2>3. journal.new \in Version /\ journal.new # 0
        /\ journal \in [phase : Phase, prior : 0..MaxVersion, new : 0..MaxVersion]
    BY <1>4, RecordTyped DEF InstallInv, Typed
  <2>4. act' \in [Proc -> RecoveryAction] /\ bak' \in [Proc -> BOOLEAN]
        /\ hr' \in [Proc -> HookResults]
        /\ rec' \in [Proc -> [phase : Phase, prior : 0..MaxVersion, new : 0..MaxVersion]]
    BY <2>1, <2>2, <2>3, <1>1, <1>4
       DEF InstallInv, Typed, RecoveryAction, Exists, HookResults, AllOk
  <2>5. pc'[p] = NextHook(a, Exists("bak")) /\ rec'[p] = journal /\ act'[p] = a
        /\ bak'[p] = Exists("bak")
    BY <2>1, <2>3, <1>1, <1>4 DEF InstallInv, Typed
  <2>6. pc'[p] \in Recovering \ {"recover"} /\ Recovery(p)'
    <3> USE <2>5, <1>1, <1>4 DEF NextHook, Recovery, Recovering
    <3>1. CASE a = "DropStaging"
      BY <3>1, <2>2 DEF Settled, Live
    <3>2. CASE a = "RestoreOld"
      BY <3>2, <2>2 DEF Parted, Kept, Live
    <3>3. CASE a = "CommitNew"
      BY <3>3, <2>2 DEF Switched, Kept, Live, Switching, Exists
    <3>4. CASE a = "DropBak"
      BY <3>4, <2>2, <2>3 DEF Committed, Live, Settled, Exists, Old
    <3>5. CASE a = "Retain"
      BY <3>5, <2>2 DEF Visited, Clean, Settled, Live, MayClear, mayClearJournalRecord
    <3> QED
      BY <2>2, <3>1, <3>2, <3>3, <3>4, <3>5
  <2>7. CardInv'
    BY <1>1, <1>2, <2>1 DEF InstallInv, CardInv, Clean, Resting, Live, OpenCard, Parted, Kept,
       Switched, Switching, Committed
  <2> QED
    BY <1>1, <2>1, <2>4, <2>6, <2>7, RecoveryGoesOn
       DEF InstallInv, Typed, RecoveryTyped, Recovering
<1> QED
  BY <1>3, <1>4

(* The process that recovers is past the start of an uninstall.             *)
LEMMA RecordAt ==
  ASSUME InstallInv, NEW p \in Proc, pc[p] \in Recovering \ {"recover"}
  PROVE  /\ pc["ui"] # "removeLive" /\ rec[p] = journal /\ journal # NoRec /\ journal \in Record
         /\ journal.new \in Version /\ journal.new # 0 /\ journal.prior < journal.new
         /\ journal.prior \in 0..MaxVersion /\ journal.new \in 0..MaxVersion
         /\ journal.new \in Nat /\ journal.prior \in Nat
         /\ OpenCard(journal)
         /\ journal \in [phase : Phase, prior : 0..MaxVersion, new : 0..MaxVersion]
         /\ Whole(journal.new) # NoDir /\ Old(journal.new) = Whole(journal.new)
         /\ (Old(journal.prior) = NoDir <=> journal.prior = 0)
            /\ Old(journal.prior) \in Directory /\ Old(0) = NoDir
<1>1. pc["ui"] # "removeLive"
  BY DEF InstallInv, Parked, Proc, Recovering
<1>2. rec[p] = journal /\ journal # NoRec /\ journal \in Record /\ OpenCard(journal)
  BY DEF InstallInv, Recovery, Typed, CardInv
<1>3. journal.new \in Version /\ journal.new \in Nat \ {0} /\ journal.prior \in 0..MaxVersion
      /\ journal \in [phase : Phase, prior : 0..MaxVersion, new : 0..MaxVersion]
  BY <1>2, RecordTyped
<1> QED
  BY <1>1, <1>2, <1>3, WholeDirectory, OldDirectory DEF OpenCard, Old

(* DropDir where removals do not fail.                                      *)
LEMMA DropWorks ==
  ASSUME InstallInv, NEW p \in Proc, NEW at, NEW d \in Dir, NEW hook, NEW next,
         DropDir(p, at, d, hook, next)
  PROVE  /\ pc[p] = at /\ UNCHANGED <<registry, journal, rec, back, act, bak, hr, offer, fate>>
         /\ tree' \in [Dir -> Directory]
         /\ \/ /\ tree[d] # NoDir /\ tree' = [tree EXCEPT ![d] = Shrink(tree[d])]
               /\ pc' = [pc EXCEPT ![p] = at]
            \/ /\ tree[d] = NoDir /\ UNCHANGED tree /\ pc' = [pc EXCEPT ![p] = next]
<1>1. /\ pc[p] = at /\ UNCHANGED <<registry, journal, rec, back, act, bak, hr, offer, fate>>
      /\ \/ /\ tree[d] # NoDir /\ tree' = [tree EXCEPT ![d] = Shrink(tree[d])] /\ UNCHANGED pc
         \/ /\ tree[d] = NoDir /\ UNCHANGED tree /\ pc' = [pc EXCEPT ![p] = next]
  BY DEF DropDir, RemovalEnds, RemoveSome, MayFail, InstallInv, Failing, Exists, Goto
<1>2. tree[d] # NoDir => Shrink(tree[d]) \in Directory
  BY ShrinkTyped DEF InstallInv, Typed
<1> QED
  BY <1>1, <1>2 DEF InstallInv, Typed

LEMMA DropBakInv ==
  ASSUME InstallInv, NEW p \in Proc, DropDir(p, "dropBak", "bak", "dropBakOk", "dropStaging")
  PROVE InstallInv'
<1>1. /\ pc[p] = "dropBak" /\ UNCHANGED <<registry, journal, rec, back, act, bak, hr, offer, fate>>
      /\ tree' \in [Dir -> Directory]
      /\ \/ /\ tree' = [tree EXCEPT !["bak"] = Shrink(tree["bak"])]
            /\ pc' = [pc EXCEPT ![p] = "dropBak"]
         \/ /\ tree["bak"] = NoDir /\ UNCHANGED tree /\ pc' = [pc EXCEPT ![p] = "dropStaging"]
  BY DropWorks DEF Dir
<1>2. Committed(journal) /\ (Switching(journal) \/ journal.phase = "RegistryCommitted")
  BY <1>1, RecordAt DEF InstallInv, Recovery, Recovering, Committed, OpenCard, Resting, Parted,
     Kept, Switched
<1>3. Committed(journal)' /\ CardInv'
  BY <1>1, <1>2, RecordAt
     DEF Committed, Live, Switching, CardInv, OpenCard, InstallInv, Typed, Dir, Recovering
<1>4. RecoveryTyped' /\ Recovery(p)'
  BY <1>1, <1>2, <1>3, RecordAt
     DEF RecoveryTyped, InstallInv, Typed, Recovery, Recovering, Committed, Live, Settled, Proc
<1> QED
  BY <1>1, <1>3, <1>4, RecoveryGoesOn DEF Recovering

LEMMA DropStagingInv ==
  ASSUME InstallInv, NEW p \in Proc, DropDir(p, "dropStaging", "staging", "dropStagingOk", "settle")
  PROVE  InstallInv'
<1>1. /\ pc[p] = "dropStaging"
      /\ UNCHANGED <<registry, journal, rec, back, act, bak, hr, offer, fate>>
      /\ tree' \in [Dir -> Directory]
      /\ \/ /\ tree["staging"] # NoDir
            /\ tree' = [tree EXCEPT !["staging"] = Shrink(tree["staging"])]
            /\ pc' = [pc EXCEPT ![p] = "dropStaging"]
         \/ /\ tree["staging"] = NoDir /\ UNCHANGED tree /\ pc' = [pc EXCEPT ![p] = "settle"]
  BY DropWorks DEF Dir
<1>2. Settled' /\ Settled
  BY <1>1 DEF InstallInv, Typed, Recovery, Settled, Live, Dir, Recovering
<1>3. CardInv'
  BY <1>1, <1>2, RecordAt
     DEF CardInv, OpenCard, Settled, Resting, Parted, Kept, Switched, Committed, Live, Switching,
         InstallInv, Typed, Dir, Recovering
<1>4. RecoveryTyped' /\ Recovery(p)'
  BY <1>1, <1>2, RecordAt
     DEF RecoveryTyped, InstallInv, Typed, Recovery, Recovering, Visited, Clean, Settled, Proc
<1> QED
  BY <1>1, <1>3, <1>4, RecoveryGoesOn DEF Recovering

LEMMA CommitNewInv ==
  ASSUME InstallInv, NEW p \in Proc, CommitNew(p) PROVE InstallInv'
<1>1. /\ pc[p] = "commit" /\ UNCHANGED <<tree, journal, rec, back, act, bak, offer, fate>>
  BY DEF CommitNew
<1>2. /\ Switched(journal) /\ Switching(journal) /\ tree["staging"] = NoDir
      /\ act[p] = "CommitNew" /\ bak[p] = (journal.prior # 0)
  BY <1>1 DEF InstallInv, Recovery
<1>3. CASE SaveRegistry(rec[p].new) /\ UNCHANGED hr
           /\ Goto(p, IF bak[p] THEN "dropBak" ELSE "dropStaging")
  <2>1. registry' = journal.new
    BY <1>3, <1>1, RecordAt DEF SaveRegistry, Recovering
  <2>2. Committed(journal)' /\ (~bak[p] => Settled')
    BY <1>1, <1>2, <2>1, RecordAt DEF Committed, Switched, Kept, Live, Settled, Recovering, Old
  <2>3. CardInv'
    BY <1>1, <1>2, <2>2, RecordAt DEF CardInv, OpenCard, Switching, Recovering
  <2>4. RecoveryTyped'
    BY <1>1, <1>3, <2>1, RecordAt DEF RecoveryTyped, InstallInv, Typed, Recovering
  <2>5. pc' = [pc EXCEPT ![p] = IF bak[p] THEN "dropBak" ELSE "dropStaging"]
    BY <1>3 DEF Goto
  <2>6. Recovery(p)'
    BY <1>1, <2>2, <2>5, RecordAt DEF InstallInv, Typed, Recovery, Recovering
  <2> QED
    BY <1>1, <2>3, <2>4, <2>5, <2>6, RecoveryGoesOn DEF Recovering
<1>4. CASE /\ RegistrySaveFails
           /\ LET fb == afterFailedRegistryCommit(bak[p]) IN
                /\ hr' = [hr EXCEPT ![p].commitOk = FALSE, ![p].restoreOk = fb = "RestoreOld"]
                /\ Goto(p, NextHook(fb, bak[p]))
  <2>1. /\ pc' = [pc EXCEPT ![p] = IF bak[p] THEN "prove" ELSE "settle"] /\ UNCHANGED registry
    BY <1>4 DEF RegistrySaveFails, Goto, NextHook, afterFailedRegistryCommit
  <2>2. hr' \in [Proc -> HookResults] /\ hr'[p].commitOk = FALSE
    <3> DEFINE ok == afterFailedRegistryCommit(bak[p]) = "RestoreOld"
    <3>1. hr' = [hr EXCEPT ![p].commitOk = FALSE, ![p].restoreOk = ok] /\ ok \in BOOLEAN
      BY <1>4
    <3> HIDE DEF ok
    <3>2. hr[p] \in HookResults /\ hr \in [Proc -> HookResults]
      BY DEF InstallInv, Typed
    <3>3. hr' = [hr EXCEPT ![p] = [hr[p] EXCEPT !.commitOk = FALSE, !.restoreOk = ok]]
      BY <3>1
    <3>4. [hr[p] EXCEPT !.commitOk = FALSE, !.restoreOk = ok] \in HookResults
          /\ [hr[p] EXCEPT !.commitOk = FALSE, !.restoreOk = ok].commitOk = FALSE
      BY <3>1, <3>2 DEF HookResults
    <3> QED
      BY <3>2, <3>3, <3>4
  <2>3. CardInv' /\ RecoveryTyped'
    BY <1>1, <2>1, <2>2, RecordAt
       DEF CardInv, OpenCard, Resting, Parted, Kept, Switched, Committed, Live, Switching,
           RecoveryTyped, InstallInv, Typed, Recovering
  <2>4. Recovery(p)'
    BY <1>1, <1>2, <2>1, <2>2, RecordAt
       DEF InstallInv, Typed, Recovery, Recovering, Switched, Kept, Parted, Live, Visited, Clean,
           Settled, MayClear, mayClearJournalRecord
  <2> QED
    BY <1>1, <2>1, <2>3, <2>4, RecoveryGoesOn DEF Recovering
<1> QED
  BY <1>3, <1>4 DEF CommitNew

LEMMA RestoreOldInv ==
  ASSUME InstallInv, NEW p \in Proc, RestoreOld(p) PROVE InstallInv'
<1>1. pc[p] \in AtUi \cup AtWorker
  BY DEF InstallInv, Typed
<1>2. CASE ProveBak(p)
  <2>1. pc[p] = "prove" /\ Parted(journal) /\ UNCHANGED <<card, local, fate>>
    BY <1>2 DEF ProveBak, Frame, InstallInv, Recovery
  <2>2. HasEntry(tree["bak"])
    BY <2>1, RecordAt, WholeDirectory DEF Parted, Kept, Old, Recovering, Version
  <2>3. pc' = [pc EXCEPT ![p] = "clearAside"]
    BY <1>2, <2>2 DEF ProveBak, Goto
  <2>4. CardInv' /\ Recovery(p)'
    BY <2>1, <2>3, RecordAt
       DEF InstallInv, Typed, Recovery, Recovering, CardInv, OpenCard, Parted, Kept, Live,
           Resting, Switched, Committed, Switching, card, local
  <2> QED
    BY <2>1, <2>3, <2>4, RecoveryGoesOn
       DEF Recovering, RecoveryTyped, InstallInv, Typed, card, local
<1>3. CASE Remove(p, "clearAside", "aside", "moveAside")
  <2>1. /\ pc[p] = "clearAside" /\ UNCHANGED <<registry, journal, local, fate>>
        /\ tree' \in [Dir -> Directory] /\ \A d \in Dir \ {"aside"} : tree'[d] = tree[d]
        /\ \/ pc' = [pc EXCEPT ![p] = "clearAside"]
           \/ tree'["aside"] = NoDir /\ pc' = [pc EXCEPT ![p] = "moveAside"]
    BY <1>3, RemovalKeeps DEF Dir
  <2>2. Parted(journal) /\ Parted(journal)'
    BY <2>1 DEF InstallInv, Recovery, Parted, Kept, Live, Dir
  <2>3. CardInv'
    BY <2>1, <2>2, RecordAt
       DEF InstallInv, Recovering, CardInv, OpenCard, Parted, Kept, Resting, Committed, Live, Dir,
           Switched, Switching
  <2>4. Recovery(p)'
    BY <2>1, <2>2, RecordAt DEF InstallInv, Typed, Recovery, Recovering, local
  <2> QED
    BY <2>1, <2>3, <2>4, RecoveryGoesOn DEF Recovering, RecoveryTyped, InstallInv, Typed, local
<1>4. CASE MoveAside(p)
  <2>1. pc[p] = "moveAside" /\ Parted(journal) /\ tree["aside"] = NoDir
    BY <1>4 DEF MoveAside, InstallInv, Recovery
  <2>2. UNCHANGED <<registry, journal, local, fate>> /\ pc' = [pc EXCEPT ![p] = "place"]
        /\ tree' \in [Dir -> Directory] /\ tree'["live"] = NoDir
        /\ \A d \in {"bak", "staging"} : tree'[d] = tree[d]
    <3>1. CASE Exists("live")
      <4>1. Rename(p, "moveAside", "live", "aside", "place", "copyAside")
        BY <1>4, <3>1 DEF MoveAside
      <4> QED
        BY <2>1, <3>1, <4>1, RenameWorks DEF Exists, Dir
    <3>2. CASE ~Exists("live")
      BY <1>4, <3>2 DEF MoveAside, Exists, Goto, Frame, Dir, InstallInv, Typed, card
    <3> QED
      BY <3>1, <3>2
  <2>3. Parted(journal)' /\ Live(NoDir)' /\ CardInv'
    BY <2>1, <2>2, RecordAt
       DEF InstallInv, Typed, Recovering, CardInv, OpenCard, Parted, Kept, Resting, Committed,
           Live, Dir, Switched, Switching
  <2>4. RecoveryTyped' /\ Recovery(p)'
    BY <2>1, <2>2, <2>3, RecordAt
       DEF InstallInv, Typed, Recovery, Recovering, local, RecoveryTyped, Dir, Directory
  <2> QED
    BY <2>1, <2>2, <2>3, <2>4, RecoveryGoesOn DEF Recovering, local
<1>5. CASE Rename(p, "place", "bak", "live", "checkPlaced", "copyPlace")
  <2>1. pc[p] = "place" /\ Parted(journal) /\ Live(NoDir)
    BY <1>5 DEF Rename, InstallInv, Recovery
  <2>2. tree["bak"] # NoDir /\ tree["live"] = NoDir /\ tree["bak"] = Old(registry) /\ registry # 0
    BY <2>1, RecordAt DEF Parted, Kept, Live, Recovering
  <2>3. UNCHANGED <<registry, journal, local, fate>> /\ pc' = [pc EXCEPT ![p] = "checkPlaced"]
        /\ tree' \in [Dir -> Directory] /\ tree'["live"] = tree["bak"] /\ tree'["bak"] = NoDir
        /\ tree'["staging"] = tree["staging"]
    BY <1>5, <2>2, RenameWorks DEF Dir
  <2>4. Settled' /\ CardInv'
    BY <2>1, <2>2, <2>3, RecordAt
       DEF InstallInv, Typed, Recovering, CardInv, OpenCard, Parted, Kept, Resting, Settled,
           Committed, Live, Dir, Switched, Switching
  <2>5. RecoveryTyped'
    BY <2>3 DEF InstallInv, Typed, local, RecoveryTyped
  <2>6. pc'[p] = "checkPlaced" /\ rec'[p] = journal' /\ journal' # NoRec /\ registry' # 0
    BY <2>1, <2>2, <2>3, RecordAt DEF InstallInv, Typed, Recovering, local
  <2>7. Recovery(p)'
    BY <2>4, <2>6 DEF Recovery
  <2> QED
    BY <2>1, <2>3, <2>4, <2>5, <2>7, RecoveryGoesOn DEF Recovering, local
<1>6. CASE CheckPlaced(p)
  <2>1. pc[p] = "checkPlaced" /\ Settled /\ registry # 0 /\ UNCHANGED <<card, local, fate>>
    BY <1>6 DEF CheckPlaced, Frame, InstallInv, Recovery
  <2>2. HasEntry(tree["live"])
    BY <2>1, WholeDirectory DEF Settled, Live, Old, InstallInv, Typed, Version
  <2>3. pc' = [pc EXCEPT ![p] = "dropAside"]
    BY <1>6, <2>2 DEF CheckPlaced, Goto
  <2>4. CardInv' /\ Recovery(p)'
    BY <2>1, <2>3, RecordAt
       DEF InstallInv, Typed, Recovery, Recovering, CardInv, OpenCard, Parted, Kept, Live,
           Resting, Switched, Committed, Switching, card, local, Settled
  <2> QED
    BY <2>1, <2>3, <2>4, RecoveryGoesOn
       DEF Recovering, RecoveryTyped, InstallInv, Typed, card, local
<1>7. CASE Remove(p, "dropAside", "aside", "dropOldBak")
  <2>1. /\ pc[p] = "dropAside" /\ UNCHANGED <<registry, journal, local, fate>>
        /\ tree' \in [Dir -> Directory] /\ \A d \in Dir \ {"aside"} : tree'[d] = tree[d]
        /\ \/ pc' = [pc EXCEPT ![p] = "dropAside"]
           \/ pc' = [pc EXCEPT ![p] = "dropOldBak"]
    BY <1>7, RemovalKeeps, Dirs
  <2>2. Settled /\ Settled' /\ registry # 0
    BY <2>1 DEF InstallInv, Recovery, Settled, Live, Dir
  <2>3. CardInv'
    BY <2>1, <2>2, RecordAt
       DEF InstallInv, Recovering, CardInv, OpenCard, Parted, Kept, Resting, Committed, Live, Dir,
           Settled, Switched, Switching
  <2>4. Recovery(p)'
    BY <2>1, <2>2, RecordAt DEF InstallInv, Typed, Recovery, Recovering, local
  <2> QED
    BY <2>1, <2>3, <2>4, RecoveryGoesOn DEF Recovering, RecoveryTyped, InstallInv, Typed, local
<1>8. CASE Remove(p, "dropOldBak", "bak", "dropStaging")
  <2>1. pc[p] = "dropOldBak" /\ Settled
    BY <1>8 DEF Remove, InstallInv, Recovery
  <2>2. UNCHANGED <<registry, journal, local, fate, tree>> /\ pc' = [pc EXCEPT ![p] = "dropStaging"]
    BY <1>8, <2>1, RemovalWorks DEF Dir, Settled
  <2>3. CardInv' /\ Recovery(p)'
    BY <2>1, <2>2, RecordAt
       DEF InstallInv, Typed, Recovery, Recovering, CardInv, OpenCard, Parted, Kept, Live,
           Resting, Switched, Committed, Switching, local, Settled
  <2> QED
    BY <2>1, <2>2, <2>3, RecoveryGoesOn DEF Recovering, RecoveryTyped, InstallInv, Typed, local
<1> QED
  BY <1>1, <1>2, <1>3, <1>4, <1>5, <1>6, <1>7, <1>8
     DEF RestoreOld, CopyTree, Remove, LiveCleared, BringBack, Rename, RestoreFailed, AtUi, AtWorker,
         Recovering, Installing, Removing

LEMMA SettleInv ==
  ASSUME InstallInv, NEW p \in Proc, Settle(p) PROVE InstallInv'
<1>1. /\ pc[p] = "settle" /\ UNCHANGED <<tree, registry, local, fate>>
      /\ pc' = [pc EXCEPT ![p] = back[p]]
      /\ back[p] = (IF p = "ui" THEN "list" ELSE "begin")
  BY DEF Settle, Frame, Goto, InstallInv, Parked, Recovering, Proc
<1>2. Visited /\ (MayClear(p) => Settled)
  BY <1>1 DEF InstallInv, Recovery
<1>3. journal' = journal \/ (journal' = NoRec /\ Settled)
  BY <1>1, <1>2, RecordAt DEF Settle, WriteJournal, JournalWriteFails, MayClear, Recovering
<1>4. CardInv' /\ Visited'
  BY <1>1, <1>2, <1>3, RecordAt
     DEF CardInv, OpenCard, Resting, Parted, Kept, Switched, Committed, Live, Switching, Visited,
         Clean, Settled, InstallInv, Typed, Recovering, Proc
<1>5. (p = "worker" => pc["ui"] = "waiting") /\ (p = "ui" => pc["worker"] = "idle")
  BY <1>1 DEF InstallInv, Parked, Proc
<1>6. Typed'
  BY <1>1, <1>3 DEF InstallInv, Typed, local, Record, AtUi, AtWorker, Installing, Proc
<1> QED
  BY <1>1, <1>4, <1>5, <1>6
     DEF InstallInv, Parked, Recovery, Installation, Removal, In, Begun, Unswitched, Placing,
         Recovering, Installing, Removing, fate, local, Proc, Typed

LEMMA RecoverInv == ASSUME InstallInv, NEW p \in Proc, Recover(p) PROVE InstallInv'
BY LoadRecordInv, DropBakInv, DropStagingInv, CommitNewInv, RestoreOldInv, SettleInv DEF Recover

-----------------------------------------------------------------------------
(* The install. *)

Rec == [phase : Phase, prior : 0..MaxVersion, new : 0..MaxVersion]

LEMMA InstallGoesOn ==
  ASSUME InstallInv, pc["worker"] \in Installing, NEW n \in {"idle"} \cup Installing,
         pc' = [pc EXCEPT !["worker"] = n], UNCHANGED <<back, act, bak, hr, offer, fate>>,
         tree' \in [Dir -> Directory], registry' \in 0..MaxVersion, journal' \in Record,
         rec' \in [Proc -> Rec],
         CardInv', Installation'
  PROVE  InstallInv'
<1>1. pc["ui"] = "waiting" /\ pc'["ui"] = "waiting" /\ pc'["worker"] = n
  BY DEF InstallInv, Parked, Installing, Typed, Proc
<1>2. Removal' /\ Parked' /\ \A q \in Proc : Recovery(q)'
  BY <1>1 DEF Removal, Parked, Recovery, Recovering, Removing, Installing, Proc
<1> QED
  BY <1>1, <1>2 DEF InstallInv, Typed, AtUi, AtWorker, Proc, fate, Rec

(* What the worker's record says while it holds the versions of an upgrade. *)
LEMMA Upgrade ==
  ASSUME InstallInv, pc["worker"] \in Installing
  PROVE  LET r == rec["worker"] IN
         /\ pc["ui"] = "waiting" /\ r \in Rec
         /\ r = [phase |-> r.phase, prior |-> r.prior, new |-> r.new]
         /\ Old(0) = NoDir /\ (Old(registry) = NoDir <=> registry = 0)
            /\ registry \in 0..MaxVersion /\ registry \in Nat
         /\ registry < r.new => /\ r.new \in Version /\ r.new # 0 /\ r.new \in Nat
                                /\ Whole(r.new) # NoDir /\ Old(r.new) = Whole(r.new)
<1>1. /\ pc["ui"] = "waiting" /\ rec["worker"] \in Rec /\ registry \in 0..MaxVersion
      /\ (Old(registry) = NoDir <=> registry = 0)
  BY OldDirectory DEF InstallInv, Parked, Typed, Proc, Installing, Rec
<1>2. registry \in Nat /\ rec["worker"].new \in 0..MaxVersion
  BY <1>1, InstallerAssumption DEF Rec, InstallerAssumption
<1>3. registry < rec["worker"].new => rec["worker"].new \in Version /\ rec["worker"].new # 0
      /\ rec["worker"].new \in Nat
  BY <1>2, InstallerAssumption DEF Version, InstallerAssumption
<1> QED
  BY <1>1, <1>2, <1>3, WholeDirectory DEF Old, Rec

LEMMA BeginInv == ASSUME InstallInv, Env = {}, BeginInstall PROVE InstallInv'
<1>1. pc["worker"] = "begin" /\ Visited
      /\ UNCHANGED <<card, back, act, bak, hr, hadLive, offer, fate>>
  BY DEF BeginInstall, InstallInv, Installation, In
<1>2. offer \in Version /\ offer \in 0..MaxVersion /\ registry \in 0..MaxVersion
      /\ registry \in Nat /\ offer \in Nat
  BY InstallerAssumption DEF InstallInv, Typed, Version, InstallerAssumption
<1>3. CASE pc' = [pc EXCEPT !["worker"] = "idle"] /\ UNCHANGED rec
  <2>1. CardInv' /\ Installation'
    BY <1>1, <1>3, Upgrade
       DEF InstallInv, Typed, CardInv, OpenCard, Parted, Kept, Switched, Switching, Committed,
           Clean, Resting, Live, card, Installation, In, Begun, Unswitched, Placing, Installing,
           Proc
  <2> QED
    BY <1>1, <1>3, <2>1, InstallGoesOn DEF InstallInv, Typed, card, Installing, Rec
<1>4. CASE /\ journal = NoRec /\ offer > registry
           /\ rec' = [rec EXCEPT !["worker"] =
                        [phase |-> "Idle", prior |-> registry, new |-> offer]]
           /\ pc' = [pc EXCEPT !["worker"] = "clearStaging"]
  <2>1. rec' \in [Proc -> Rec]
    BY <1>2, <1>4 DEF InstallInv, Typed, Rec, Phase
  <2>2. CardInv'
    BY <1>1, <1>4, Upgrade
       DEF InstallInv, Typed, CardInv, Clean, Resting, Live, card, Installing, Proc
  <2>3. Installation'
    BY <1>1, <1>2, <1>4 DEF InstallInv, Typed, Installation, In, Begun, Unswitched, Placing,
       Visited, Clean, Settled, Live, card, Proc
  <2> QED
    BY <1>1, <1>4, <2>1, <2>2, <2>3, InstallGoesOn DEF InstallInv, Typed, card, Installing
<1> QED
  BY <1>2, <1>3, <1>4 DEF BeginInstall, Goto

LEMMA PhaseRecord ==
  ASSUME InstallInv, pc["worker"] \in Installing, NEW phase \in Phase \ {"Idle"},
         registry < rec["worker"].new, NEW n, n = [rec["worker"] EXCEPT !.phase = phase]
  PROVE  /\ n \in Record /\ n # NoRec
         /\ n = [phase |-> phase, prior |-> rec["worker"].prior, new |-> rec["worker"].new]
         /\ [rec EXCEPT !["worker"] = n] \in [Proc -> Rec]
         /\ [rec EXCEPT !["worker"] = n]["worker"] = n
<1> DEFINE r == rec["worker"]
<1>1. r \in Rec /\ r.new \in Version /\ r.prior \in Version \cup {0}
      /\ n = [phase |-> phase, prior |-> r.prior, new |-> r.new]
  BY Upgrade, InstallerAssumption DEF Rec, Version, InstallerAssumption
<1>2. n \in Record /\ n # NoRec /\ n \in Rec
  BY <1>1 DEF Record, Records, NoRec, Rec
<1>3. rec \in [Proc -> Rec] /\ "worker" \in Proc
  BY DEF InstallInv, Typed, Rec, Proc
<1> QED
  BY <1>1, <1>2, <1>3

(* A phase is written, or the journal keeps either record.                  *)
PhaseSet(phase, ok, failed) ==
  LET n == [phase |-> phase, prior |-> rec["worker"].prior, new |-> rec["worker"].new]
  IN /\ UNCHANGED <<tree, registry, back, act, bak, hr, offer, fate>>
     /\ n \in Record /\ n # NoRec /\ rec' \in [Proc -> Rec] /\ rec'["worker"] = n
     /\ \/ journal' = n /\ pc' = [pc EXCEPT !["worker"] = ok]
        \/ journal' \in {journal, n} /\ pc' = [pc EXCEPT !["worker"] = failed]

LEMMA SetPhaseDoes ==
  ASSUME InstallInv, pc["worker"] \in Installing, NEW at, NEW phase \in Phase \ {"Idle"}, NEW ok,
         NEW failed,
         SetPhase("worker", at, phase, ok, failed), registry < rec["worker"].new
  PROVE  PhaseSet(phase, ok, failed)
<1> DEFINE n == [rec["worker"] EXCEPT !.phase = phase]
<1>1. rec' = [rec EXCEPT !["worker"] = n]
      /\ UNCHANGED <<tree, registry, back, act, bak, hr, offer, fate>>
      /\ \/ journal' = n /\ pc' = [pc EXCEPT !["worker"] = ok]
         \/ journal' \in {journal, n} /\ pc' = [pc EXCEPT !["worker"] = failed]
  BY DEF SetPhase, WriteJournal, JournalWriteFails, Goto
<1>2. /\ n \in Record /\ n # NoRec
      /\ n = [phase |-> phase, prior |-> rec["worker"].prior, new |-> rec["worker"].new]
      /\ [rec EXCEPT !["worker"] = n] \in [Proc -> Rec]
      /\ [rec EXCEPT !["worker"] = n]["worker"] = n
  BY PhaseRecord
<1> HIDE DEF n
<1> QED
  BY <1>1, <1>2 DEF PhaseSet

(* The names of the steps that stage the package and open the transaction.  *)
StageStep == \/ Remove("worker", "clearStaging", "staging", "markStaging")
             \/ SetPhase("worker", "markStaging", "Staging", "extract", "idle")
             \/ CopyTree("worker", "extract", Whole(rec["worker"].new), "staging",
                         "markStaged", "discard", "extract")
             \/ SetPhase("worker", "markStaged", "Staged", Staged, "discard")
             \/ SetPhase("worker", "markQuarantined", "Quarantined", "clearBak", "discard")
             \/ Remove("worker", "discard", "staging", "forget")
             \/ DropRecord("worker", "forget")

LEMMA StageInv == ASSUME InstallInv, StageStep PROVE InstallInv'
<1> DEFINE r == rec["worker"]
<1> USE DEF Installing
<1>1. CASE Remove("worker", "clearStaging", "staging", "markStaging")
  <2>1. pc["worker"] = "clearStaging" /\ tree["staging"] = NoDir
    BY <1>1 DEF Remove, InstallInv, Installation, In, Begun, Visited, Clean
  <2>2. UNCHANGED <<tree, registry, journal, local, fate>>
        /\ pc' = [pc EXCEPT !["worker"] = "markStaging"]
    BY <1>1, <2>1, RemovalWorks DEF Dir
  <2>3. CardInv' /\ Installation'
    BY <2>1, <2>2, Upgrade
       DEF InstallInv, Typed, CardInv, Clean, Resting, Live, local, Proc, Installation, In, Begun,
           Unswitched, Placing, Visited, Settled
  <2> QED
    BY <2>1, <2>2, <2>3, InstallGoesOn DEF InstallInv, Typed, local, Rec
<1>2. CASE SetPhase("worker", "markStaging", "Staging", "extract", "idle")
  <2> DEFINE n == [phase |-> "Staging", prior |-> r.prior, new |-> r.new]
  <2>1. /\ pc["worker"] = "markStaging" /\ journal = NoRec /\ Visited
        /\ registry = r.prior /\ registry < r.new
    BY <1>2 DEF SetPhase, InstallInv, Installation, In, Begun
  <2>2. UNCHANGED <<tree, registry, back, act, bak, hr, offer, fate>>
        /\ n \in Record /\ n # NoRec /\ rec' \in [Proc -> Rec] /\ rec'["worker"] = n
        /\ \/ journal' = n /\ pc' = [pc EXCEPT !["worker"] = "extract"]
           \/ journal' \in {journal, n} /\ pc' = [pc EXCEPT !["worker"] = "idle"]
    <3>1. PhaseSet("Staging", "extract", "idle")
      <4>1. "Staging" \in Phase \ {"Idle"}
        BY DEF Phase
      <4> QED
        BY <1>2, <2>1, <4>1, SetPhaseDoes
    <3> QED
      BY <2>1, <3>1 DEF PhaseSet
  <2>3. Settled /\ Settled'
    BY <2>1, <2>2, Upgrade DEF Settled, Live, InstallInv, CardInv, Clean, Resting
  <2>4. CardInv'
    BY <2>1, <2>2, <2>3 DEF CardInv, OpenCard, Clean, Settled, Resting, Live, Visited
  <2>5. Installation'
    BY <2>1, <2>2, <2>3, Upgrade
       DEF InstallInv, Typed, Proc, Installation, In, Begun, Unswitched, Placing
  <2> QED
    BY <2>1, <2>2, <2>4, <2>5, InstallGoesOn DEF InstallInv, Typed
<1>3. CASE CopyTree("worker", "extract", Whole(r.new), "staging",
                    "markStaged", "discard", "extract")
  <2>1. /\ pc["worker"] = "extract" /\ UNCHANGED <<registry, journal, local, fate>>
        /\ journal = r /\ r # NoRec /\ r.phase = "Staging" /\ registry = r.prior
        /\ registry < r.new /\ Settled
    BY <1>3 DEF CopyTree, Frame, InstallInv, Installation, In, Unswitched
  <2>2. tree["staging"] \in Directory /\ tree \in [Dir -> Directory] /\ r.new \in Version
    BY <2>1, Upgrade DEF InstallInv, Typed, Dir
  <2>3. \/ tree' = [tree EXCEPT !["staging"] = Grow(@, Whole(r.new))]
           /\ pc' = [pc EXCEPT !["worker"] = "extract"]
        \/ UNCHANGED tree /\ tree["staging"] = Whole(r.new)
           /\ pc' = [pc EXCEPT !["worker"] = "markStaged"]
        \/ UNCHANGED tree /\ pc' = [pc EXCEPT !["worker"] = "discard"]
    BY <1>3, <2>1, <2>2, CopyDone DEF CopyTree, Goto, InstallInv, Typed
  <2>4. tree' \in [Dir -> Directory] /\ tree'["bak"] = tree["bak"] /\ tree'["live"] = tree["live"]
        /\ (pc'["worker"] = "markStaged" => tree'["staging"] = Whole(r.new))
        /\ pc'["worker"] \in {"extract", "markStaged", "discard"}
        /\ pc' = [pc EXCEPT !["worker"] = pc'["worker"]]
    BY <2>2, <2>3, GrowTyped DEF Dir, InstallInv, Typed, Proc
  <2>5. Settled'
    BY <2>1, <2>4 DEF Settled, Live
  <2>6. CardInv' /\ Installation'
    BY <2>1, <2>4, <2>5, Upgrade
       DEF CardInv, OpenCard, Settled, Resting, Live, local, Installation, In, Begun, Unswitched,
           Placing
  <2> QED
    BY <2>1, <2>4, <2>6, InstallGoesOn DEF InstallInv, Typed, local, Rec
<1>4. CASE SetPhase("worker", "markStaged", "Staged", Staged, "discard")
  <2> DEFINE n == [phase |-> "Staged", prior |-> r.prior, new |-> r.new]
  <2>1. /\ pc["worker"] = "markStaged" /\ journal = r /\ r # NoRec /\ r.phase = "Staging" /\ Settled
        /\ registry = r.prior /\ registry < r.new /\ tree["staging"] = Whole(r.new)
    BY <1>4 DEF SetPhase, InstallInv, Installation, In, Unswitched
  <2>2. UNCHANGED <<tree, registry, back, act, bak, hr, offer, fate>>
        /\ n \in Record /\ n # NoRec /\ rec' \in [Proc -> Rec] /\ rec'["worker"] = n
        /\ \/ /\ journal' = n
              /\ pc' = [pc EXCEPT !["worker"] =
                           IF r.prior = 0 THEN "clearBak" ELSE "markQuarantined"]
           \/ journal' \in {r, n} /\ pc' = [pc EXCEPT !["worker"] = "discard"]
    <3>1. PhaseSet("Staged", Staged, "discard")
      <4>1. "Staged" \in Phase \ {"Idle"}
        BY DEF Phase
      <4> QED
        BY <1>4, <2>1, <4>1, SetPhaseDoes
    <3> QED
      BY <2>1, <3>1 DEF PhaseSet, Staged, hadPrior
  <2>3. CardInv' /\ Installation'
    BY <2>1, <2>2, Upgrade
       DEF CardInv, OpenCard, Settled, Resting, Live, InstallInv, Typed, Proc, Installation, In,
           Begun, Unswitched, Placing
  <2> QED
    BY <2>1, <2>2, <2>3, InstallGoesOn DEF InstallInv, Typed
<1>5. CASE SetPhase("worker", "markQuarantined", "Quarantined", "clearBak", "discard")
  <2> DEFINE n == [phase |-> "Quarantined", prior |-> r.prior, new |-> r.new]
  <2>1. /\ pc["worker"] = "markQuarantined" /\ journal = r /\ r # NoRec /\ r.phase = "Staged"
        /\ r.prior # 0
        /\ Settled /\ registry = r.prior /\ registry < r.new /\ tree["staging"] = Whole(r.new)
    BY <1>5 DEF SetPhase, InstallInv, Installation, In, Unswitched
  <2>2. UNCHANGED <<tree, registry, back, act, bak, hr, offer, fate>>
        /\ n \in Record /\ n # NoRec /\ rec' \in [Proc -> Rec] /\ rec'["worker"] = n
        /\ \/ journal' = n /\ pc' = [pc EXCEPT !["worker"] = "clearBak"]
           \/ journal' \in {r, n} /\ pc' = [pc EXCEPT !["worker"] = "discard"]
    <3>1. PhaseSet("Quarantined", "clearBak", "discard")
      <4>1. "Quarantined" \in Phase \ {"Idle"}
        BY DEF Phase
      <4> QED
        BY <1>5, <2>1, <4>1, SetPhaseDoes
    <3> QED
      BY <2>1, <3>1 DEF PhaseSet
  <2>3. CardInv' /\ Installation'
    BY <2>1, <2>2, Upgrade
       DEF CardInv, OpenCard, Settled, Resting, Live, InstallInv, Typed, Proc, Installation, In,
           Begun, Unswitched, Placing
  <2> QED
    BY <2>1, <2>2, <2>3, InstallGoesOn DEF InstallInv, Typed
<1>6. CASE Remove("worker", "discard", "staging", "forget")
  <2>1. /\ pc["worker"] = "discard" /\ UNCHANGED <<registry, journal, local, fate>>
        /\ tree' \in [Dir -> Directory] /\ \A d \in {"live", "bak"} : tree'[d] = tree[d]
        /\ \/ pc' = [pc EXCEPT !["worker"] = "discard"]
           \/ tree'["staging"] = NoDir /\ pc' = [pc EXCEPT !["worker"] = "forget"]
    BY <1>6, RemovalKeeps DEF Dir
  <2>2. /\ Settled /\ Settled' /\ journal # NoRec /\ journal.prior = r.prior /\ journal.new = r.new
        /\ journal.phase \in {"Staging", "Staged", "Quarantined"} /\ registry = r.prior
        /\ registry < r.new
    BY <2>1 DEF InstallInv, Installation, In, Settled, Live
  <2>3. CardInv' /\ Installation'
    BY <2>1, <2>2, Upgrade
       DEF CardInv, OpenCard, Settled, Resting, Live, InstallInv, Typed, Proc, local,
           Installation, In, Begun, Unswitched, Placing
  <2> QED
    BY <2>1, <2>3, InstallGoesOn DEF InstallInv, Typed, local, Rec
<1>7. CASE DropRecord("worker", "forget")
  <2>1. /\ pc["worker"] = "forget" /\ UNCHANGED <<tree, registry, local, fate>>
        /\ journal' \in {journal, NoRec}
        /\ pc' = [pc EXCEPT !["worker"] = "idle"] /\ Settled /\ tree["staging"] = NoDir
    BY <1>7 DEF DropRecord, WriteJournal, JournalWriteFails, Frame, Goto, InstallInv,
       Installation, In
  <2>2. CardInv' /\ Installation'
    BY <2>1, Upgrade DEF CardInv, OpenCard, Settled, Clean, Resting, Parted, Kept, Switched,
       Committed, Switching, Live, InstallInv, Typed, Proc, Installation, In, Begun, Unswitched,
       Placing
  <2> QED
    BY <2>1, <2>2, InstallGoesOn DEF InstallInv, Typed, local, Rec, Record
<1> QED
  BY <1>1, <1>2, <1>3, <1>4, <1>5, <1>6, <1>7 DEF StageStep

(* The switch: the old version goes to bak, the staged one goes live.       *)
LEMMA PromoteInv == ASSUME InstallInv, PromoteStaging PROVE InstallInv'
<1> DEFINE r == rec["worker"]
<1> USE DEF Installing
<1>1. pc["worker"] \in AtWorker
  BY DEF InstallInv, Typed
<1>2. CASE Remove("worker", "clearBak", "bak", "checkLive")
  <2>1. /\ pc["worker"] = "clearBak" /\ Settled /\ journal = r /\ r # NoRec /\ registry = r.prior
        /\ registry < r.new
        /\ tree["staging"] = Whole(r.new)
        /\ r.phase = IF r.prior = 0 THEN "Staged" ELSE "Quarantined"
    BY <1>2 DEF Remove, InstallInv, Installation, In, Unswitched, Placing
  <2>2. UNCHANGED <<tree, registry, journal, local, fate>>
        /\ pc' = [pc EXCEPT !["worker"] = "checkLive"]
    <3>1. tree["bak"] = NoDir /\ "bak" \in Dir
      BY <2>1 DEF Settled, Dir
    <3> QED
      BY <1>2, <3>1, RemovalWorks
  <2>3. CardInv' /\ Installation'
    BY <2>1, <2>2, Upgrade
       DEF CardInv, OpenCard, Settled, Resting, Live, InstallInv, Typed, Proc, local,
           Installation, In, Begun, Unswitched, Placing
  <2> QED
    BY <2>1, <2>2, <2>3, InstallGoesOn DEF InstallInv, Typed, local, Rec
<1>3. CASE CheckLive
  <2>1. /\ pc["worker"] = "checkLive" /\ Settled /\ journal = r /\ r # NoRec
        /\ registry = r.prior /\ registry < r.new
        /\ tree["staging"] = Whole(r.new)
        /\ r.phase = IF r.prior = 0 THEN "Staged" ELSE "Quarantined"
    BY <1>3 DEF CheckLive, InstallInv, Installation, In, Unswitched, Placing
  <2>2. /\ UNCHANGED <<tree, registry, journal, rec, back, act, bak, hr, offer, fate>>
        /\ pc' = [pc EXCEPT !["worker"] = IF r.prior = 0 THEN "promote" ELSE "quarantine"]
    BY <1>3, <2>1, Upgrade DEF CheckLive, Exists, Goto, Settled, Live, card
  <2>3. CardInv' /\ Installation'
    BY <2>1, <2>2, Upgrade
       DEF CardInv, OpenCard, Settled, Resting, Live, Kept, InstallInv, Typed, Proc, Installation,
           In, Begun, Unswitched, Placing
  <2> QED
    BY <2>1, <2>2, <2>3, InstallGoesOn DEF InstallInv, Typed, Rec
<1>4. CASE Rename("worker", "quarantine", "live", "bak", "promote", "copyBak")
  <2>1. /\ pc["worker"] = "quarantine" /\ Settled /\ journal = r /\ r # NoRec
        /\ registry = r.prior /\ registry < r.new
        /\ r.prior # 0 /\ tree["staging"] = Whole(r.new) /\ r.phase = "Quarantined"
    BY <1>4 DEF Rename, InstallInv, Installation, In, Unswitched, Placing
  <2>2. tree["live"] # NoDir /\ tree["bak"] = NoDir /\ tree["live"] = Old(registry)
    BY <2>1, Upgrade DEF Settled, Live
  <2>3. /\ UNCHANGED <<registry, journal, local, fate>> /\ pc' = [pc EXCEPT !["worker"] = "promote"]
        /\ tree' \in [Dir -> Directory] /\ tree'["bak"] = tree["live"] /\ tree'["live"] = NoDir
        /\ tree'["staging"] = tree["staging"]
    BY <1>4, <2>2, RenameWorks DEF Dir
  <2>4. CardInv' /\ Installation'
    BY <2>1, <2>2, <2>3, Upgrade
       DEF CardInv, OpenCard, Parted, Kept, Live, InstallInv, Typed, Proc, local, Installation,
           In, Begun, Unswitched, Placing
  <2> QED
    BY <2>1, <2>3, <2>4, InstallGoesOn DEF InstallInv, Typed, local, Rec
<1>5. CASE Rename("worker", "promote", "staging", "live", "markSwitched", "copyLive")
  <2>1. /\ pc["worker"] = "promote" /\ journal = r /\ r # NoRec /\ registry = r.prior
        /\ registry < r.new
        /\ Kept(r) /\ Live(NoDir) /\ tree["staging"] = Whole(r.new)
        /\ r.phase = IF r.prior = 0 THEN "Staged" ELSE "Quarantined"
    BY <1>5 DEF Rename, InstallInv, Installation, In, Unswitched, Placing
  <2>2. tree["live"] = NoDir /\ tree["staging"] # NoDir
    BY <2>1, Upgrade DEF Live
  <2>3. /\ UNCHANGED <<registry, journal, local, fate>>
        /\ pc' = [pc EXCEPT !["worker"] = "markSwitched"]
        /\ tree' \in [Dir -> Directory] /\ tree'["live"] = tree["staging"]
        /\ tree'["staging"] = NoDir
        /\ tree'["bak"] = tree["bak"]
    BY <1>5, <2>2, RenameWorks DEF Dir
  <2>4. CardInv' /\ Installation'
    BY <2>1, <2>2, <2>3, Upgrade
       DEF CardInv, OpenCard, Parted, Kept, Switched, Switching, Live, InstallInv, Typed, Proc,
           local, Installation, In, Begun, Unswitched, Placing
  <2> QED
    BY <2>1, <2>3, <2>4, InstallGoesOn DEF InstallInv, Typed, local, Rec
<1> QED
  BY <1>1, <1>2, <1>3, <1>4, <1>5
     DEF PromoteStaging, CopyTree, Remove, VerifyBak, UndoPromote, AtWorker, Recovering

(* The end: the new version is marked live, listed and left alone.          *)
EndStep == \/ SetPhase("worker", "markSwitched", "LiveSwitched", "saveRegistry", "idle")
           \/ CommitRegistry
           \/ SetPhase("worker", "markCommitted", "RegistryCommitted", "finish", "finish")
           \/ Remove("worker", "finish", "bak", "forget")

LEMMA EndInv == ASSUME InstallInv, EndStep PROVE InstallInv'
<1> DEFINE r == rec["worker"]
<1> USE DEF Installing
<1>1. CASE SetPhase("worker", "markSwitched", "LiveSwitched", "saveRegistry", "idle")
  <2> DEFINE n == [phase |-> "LiveSwitched", prior |-> r.prior, new |-> r.new]
  <2>1. /\ pc["worker"] = "markSwitched" /\ journal = r /\ r # NoRec /\ registry = r.prior
        /\ registry < r.new
        /\ Switched(r) /\ tree["staging"] = NoDir
    BY <1>1 DEF SetPhase, InstallInv, Installation, In, Placing
  <2>2. UNCHANGED <<tree, registry, back, act, bak, hr, offer, fate>>
        /\ n \in Record /\ n # NoRec /\ rec' \in [Proc -> Rec] /\ rec'["worker"] = n
        /\ \/ journal' = n /\ pc' = [pc EXCEPT !["worker"] = "saveRegistry"]
           \/ journal' \in {journal, n} /\ pc' = [pc EXCEPT !["worker"] = "idle"]
    <3>1. PhaseSet("LiveSwitched", "saveRegistry", "idle")
      <4>1. "LiveSwitched" \in Phase \ {"Idle"}
        BY DEF Phase
      <4> QED
        BY <1>1, <2>1, <4>1, SetPhaseDoes
    <3> QED
      BY <2>1, <3>1 DEF PhaseSet
  <2>3. journal' = n => OpenCard(n)'
    BY <2>1, <2>2, Upgrade DEF OpenCard, Parted, Kept, Switched, Switching, Live
  <2>4. journal' = journal => CardInv'
    BY <2>1, <2>2, Upgrade
       DEF InstallInv, Typed, Proc, CardInv, OpenCard, Parted, Kept, Switched, Switching,
           Committed, Resting, Live
  <2>5. CardInv' /\ Installation'
    BY <2>1, <2>2, <2>3, <2>4, Upgrade
       DEF CardInv, Switched, Kept, Live, InstallInv, Typed, Proc, Installation, In, Begun,
           Unswitched, Placing
  <2> QED
    BY <2>1, <2>2, <2>5, InstallGoesOn DEF InstallInv, Typed
<1>2. CASE CommitRegistry
  <2>1. /\ pc["worker"] = "saveRegistry" /\ journal = r /\ r # NoRec /\ registry = r.prior
        /\ registry < r.new
        /\ Switched(r) /\ tree["staging"] = NoDir /\ r.phase = "LiveSwitched"
        /\ UNCHANGED <<tree, journal, local, fate>>
    BY <1>2 DEF CommitRegistry, Frame, InstallInv, Installation, In
  <2>2. \/ registry' = r.new /\ pc' = [pc EXCEPT !["worker"] = "markCommitted"]
        \/ registry' = registry /\ pc' = [pc EXCEPT !["worker"] = "idle"]
    BY <1>2 DEF CommitRegistry, SaveRegistry, RegistrySaveFails, Goto
  <2>3. CardInv' /\ Installation'
    BY <2>1, <2>2, Upgrade
       DEF CardInv, OpenCard, Switched, Parted, Kept, Live, Switching, Committed, InstallInv,
           Typed, Proc, local, Installation, In, Begun, Unswitched, Placing
  <2> QED
    BY <2>1, <2>2, <2>3, Upgrade, InstallGoesOn DEF InstallInv, Typed, local, Rec
<1>3. CASE SetPhase("worker", "markCommitted", "RegistryCommitted", "finish", "finish")
  <2> DEFINE n == [phase |-> "RegistryCommitted", prior |-> r.prior, new |-> r.new]
  <2>1. /\ pc["worker"] = "markCommitted" /\ journal = r /\ r # NoRec /\ Committed(r)
        /\ r.phase = "LiveSwitched"
        /\ r.prior < r.new /\ r \in Record
    BY <1>3 DEF SetPhase, InstallInv, Typed, Installation, In, CardInv, OpenCard
  <2>2. UNCHANGED <<tree, registry, back, act, bak, hr, offer, fate>>
        /\ n \in Record /\ n # NoRec /\ rec' \in [Proc -> Rec] /\ rec'["worker"] = n
        /\ journal' \in {r, n} /\ pc' = [pc EXCEPT !["worker"] = "finish"]
    <3>1. /\ rec' = [rec EXCEPT !["worker"] = [r EXCEPT !.phase = "RegistryCommitted"]]
          /\ UNCHANGED <<tree, registry, back, act, bak, hr, offer, fate>>
          /\ pc' = [pc EXCEPT !["worker"] = "finish"]
          /\ journal' \in {r, [r EXCEPT !.phase = "RegistryCommitted"]}
      BY <1>3, <2>1 DEF SetPhase, WriteJournal, JournalWriteFails, Goto
    <3>2. r \in Rec /\ [r EXCEPT !.phase = "RegistryCommitted"] = n
      BY Upgrade, <2>1 DEF Rec
    <3>3. n \in Record /\ n # NoRec /\ n \in Rec
      BY <2>1, RecordTyped, <3>2 DEF Record, Records, NoRec, Rec, Phase
    <3>4. rec \in [Proc -> Rec]
      BY DEF InstallInv, Typed, Rec
    <3> HIDE DEF n, r
    <3> QED
      BY <3>1, <3>2, <3>3, <3>4 DEF Proc
  <2>3. Committed(r)' /\ r = [n EXCEPT !.phase = "LiveSwitched"] /\ OpenCard(journal)'
    BY <2>1, <2>2, Upgrade DEF Committed, Live, OpenCard, Switching
  <2>4. CardInv' /\ Installation'
    BY <2>1, <2>2, <2>3 DEF CardInv, Committed, Live, InstallInv, Typed, Proc, Installation, In,
       Begun, Unswitched, Placing
  <2> QED
    BY <2>1, <2>2, <2>4, InstallGoesOn DEF InstallInv, Typed
<1>4. CASE Remove("worker", "finish", "bak", "forget")
  <2>1. /\ pc["worker"] = "finish" /\ UNCHANGED <<registry, journal, local, fate>>
        /\ tree' \in [Dir -> Directory] /\ \A d \in {"live", "staging"} : tree'[d] = tree[d]
        /\ \/ pc' = [pc EXCEPT !["worker"] = "finish"]
           \/ tree'["bak"] = NoDir /\ pc' = [pc EXCEPT !["worker"] = "forget"]
    BY <1>4, RemovalKeeps DEF Dir
  <2>2. /\ Committed(r) /\ r.phase = "RegistryCommitted"
        /\ journal \in {r, [r EXCEPT !.phase = "LiveSwitched"]}
    BY <2>1 DEF InstallInv, Installation, In
  <2>3. journal # NoRec /\ journal.new = r.new
        /\ journal.phase \in {"LiveSwitched", "RegistryCommitted"}
        /\ registry # 0 /\ Old(registry) = Whole(registry) /\ journal.prior < journal.new
    BY <2>1, <2>2, Upgrade, RecordTyped
       DEF NoRec, InstallInv, Typed, CardInv, OpenCard, Committed, Old
  <2>4. CardInv' /\ Installation'
    BY <2>1, <2>2, <2>3, Upgrade
       DEF CardInv, OpenCard, Committed, Settled, Live, Switching, InstallInv, Typed, Proc, local,
           Installation, In, Begun, Unswitched, Placing
  <2> QED
    BY <2>1, <2>4, InstallGoesOn DEF InstallInv, Typed, local, Rec
<1> QED
  BY <1>1, <1>2, <1>3, <1>4 DEF EndStep

-----------------------------------------------------------------------------
(* The ui and the power. *)

LEMMA UiInv ==
  ASSUME InstallInv, Env = {},
         OpenAppList \/ (\E v \in Version : StartInstall(v)) \/ InstallReturns \/ Uninstall
  PROVE  InstallInv'
<1> USE DEF Proc, Recovering, Installing, Removing
<1>1. CASE OpenAppList
  <2>1. pc["ui"] \in {"off", "list"} /\ pc["worker"] = "idle"
        /\ UNCHANGED <<card, rec, act, bak, hr, hadLive, offer, fate>>
        /\ pc' = [pc EXCEPT !["ui"] = "recover"] /\ back' = [back EXCEPT !["ui"] = "list"]
    BY <1>1 DEF OpenAppList, InstallInv, Parked
  <2>2. Typed' /\ CardInv'
    BY <2>1 DEF InstallInv, Typed, CardInv, OpenCard, Resting, Parted, Kept, Switched, Switching,
       Committed, Clean, Live, card, AtUi
  <2> QED
    BY <2>1, <2>2 DEF InstallInv, Typed, Parked, Recovery, Installation, Removal, In, Begun,
       Unswitched, Placing, fate, card
<1>2. CASE \E v \in Version : StartInstall(v)
  <2>1. PICK v \in Version : StartInstall(v)
    BY <1>2
  <2>2. pc["ui"] \in {"off", "list"} /\ UNCHANGED <<card, rec, act, bak, hr, hadLive, fate>>
        /\ offer' = v
        /\ pc' = [ui |-> "waiting", worker |-> "recover"]
        /\ back' = [back EXCEPT !["worker"] = "begin"]
    BY <2>1 DEF StartInstall
  <2>3. pc'["ui"] = "waiting" /\ pc'["worker"] = "recover" /\ pc' \in [Proc -> AtUi \cup AtWorker]
    BY <2>2 DEF AtUi, AtWorker
  <2>4. Typed' /\ CardInv'
    BY <2>2, <2>3 DEF InstallInv, Typed, CardInv, OpenCard, Resting, Parted, Kept, Switched,
       Switching, Committed, Clean, Live, card, AtUi, AtWorker
  <2> QED
    BY <2>2, <2>3, <2>4 DEF InstallInv, Typed, Parked, Recovery, Installation, Removal, In, Begun,
       Unswitched, Placing, fate
<1>3. CASE InstallReturns
  <2>1. pc["ui"] = "waiting" /\ pc["worker"] = "idle"
        /\ UNCHANGED <<card, rec, act, bak, hr, hadLive, offer, fate>>
        /\ pc' = [pc EXCEPT !["ui"] = "recover"] /\ back' = [back EXCEPT !["ui"] = "list"]
    BY <1>3 DEF InstallReturns
  <2>2. Typed' /\ CardInv'
    BY <2>1 DEF InstallInv, Typed, CardInv, OpenCard, Resting, Parted, Kept, Switched, Switching,
       Committed, Clean, Live, card, AtUi
  <2> QED
    BY <2>1, <2>2 DEF InstallInv, Typed, Parked, Recovery, Installation, Removal, In, Begun,
       Unswitched, Placing, fate, card
<1>4. CASE Uninstall
  <2>1. /\ pc["ui"] = "list" /\ registry # 0 /\ Visited /\ pc["worker"] = "idle"
        /\ UNCHANGED <<tree, journal, local, fate>>
        /\ \/ registry' = 0 /\ pc' = [pc EXCEPT !["ui"] = "removeLive"]
           \/ registry' = registry /\ pc' = [pc EXCEPT !["ui"] = "recover"]
    BY <1>4 DEF Uninstall, SaveRegistry, RegistrySaveFails, Goto, Frame, InstallInv, Removal,
       Parked
  <2>2. Settled /\ Clean
    BY <2>1 DEF Visited
  <2>3. back["ui"] = "list" /\ Old(0) = NoDir
    BY <2>1 DEF InstallInv, Parked, Old
  <2>4. CardInv'
    BY <2>1, <2>2 DEF InstallInv, Typed, CardInv, OpenCard, Resting, Settled, Clean, Live, Parted,
       Kept, Switched, Switching, Committed
  <2>5. Typed'
    BY <2>1, InstallerAssumption DEF InstallInv, Typed, local, AtUi, InstallerAssumption
  <2> QED
    BY <2>1, <2>2, <2>3, <2>4, <2>5
       DEF InstallInv, Typed, Parked, Recovery, Installation, Removal, In, Begun, Unswitched,
           Placing, Clean, Settled, local, fate
<1> QED
  BY <1>1, <1>2, <1>3, <1>4

(* An uninstall takes the directories away while nothing else runs.         *)
LEMMA RemoveTreesInv == ASSUME InstallInv, RemoveTrees PROVE InstallInv'
<1> USE DEF Proc, Recovering, Installing, Removing
<1>1. /\ pc["ui"] \in Removing /\ pc["worker"] = "idle" /\ back["ui"] = "list" /\ registry = 0
      /\ Clean
      /\ Old(0) = NoDir
  BY DEF RemoveTrees, Remove, InstallInv, Parked, Removal, Old
<1>2. /\ UNCHANGED <<registry, journal, local, fate>> /\ tree' \in [Dir -> Directory]
      /\ tree'["bak"] = NoDir /\ tree'["staging"] = NoDir
      /\ \/ pc["ui"] = "removeLive" /\ pc' = [pc EXCEPT !["ui"] = "removeLive"]
         \/ Live(NoDir)'
            /\ \E n \in {"removeStaging", "removeBak", "recover"} : pc' = [pc EXCEPT !["ui"] = n]
  <2>1. CASE Remove("ui", "removeLive", "live", "removeStaging")
    <3>1. UNCHANGED <<registry, journal, local, fate>> /\ pc["ui"] = "removeLive"
          /\ tree' \in [Dir -> Directory] /\ \A e \in Dir \ {"live"} : tree'[e] = tree[e]
          /\ \/ pc' = [pc EXCEPT !["ui"] = "removeLive"]
             \/ tree["live"] = NoDir /\ tree' = tree /\ pc' = [pc EXCEPT !["ui"] = "removeStaging"]
      BY <2>1, RemovalKeeps DEF Dir
    <3> QED
      BY <1>1, <3>1 DEF Clean, Live, Dir
  <2>2. CASE Remove("ui", "removeStaging", "staging", "removeBak")
    <3>1. pc["ui"] = "removeStaging" /\ tree["staging"] = NoDir /\ Live(NoDir) /\ "staging" \in Dir
      BY <1>1, <2>2 DEF Clean, Remove, InstallInv, Removal, Settled, Live, Dir
    <3>2. UNCHANGED <<tree, registry, journal, local, fate>>
          /\ pc' = [pc EXCEPT !["ui"] = "removeBak"]
      BY <2>2, <3>1, RemovalWorks
    <3> QED
      BY <1>1, <3>1, <3>2 DEF Clean, Live, InstallInv, Typed
  <2>3. CASE Remove("ui", "removeBak", "bak", "recover")
    <3>1. pc["ui"] = "removeBak" /\ tree["bak"] = NoDir /\ Live(NoDir) /\ "bak" \in Dir
      BY <1>1, <2>3 DEF Clean, Remove, InstallInv, Removal, Settled, Live, Dir
    <3>2. UNCHANGED <<tree, registry, journal, local, fate>>
          /\ pc' = [pc EXCEPT !["ui"] = "recover"]
      BY <2>3, <3>1, RemovalWorks
    <3> QED
      BY <1>1, <3>1, <3>2 DEF Clean, Live, InstallInv, Typed
  <2> QED
    BY <2>1, <2>2, <2>3 DEF RemoveTrees
<1>3. CardInv'
  BY <1>1, <1>2 DEF InstallInv, Typed, CardInv, OpenCard, Resting, Parted, Kept, Switched,
     Switching, Committed, Clean, Live
<1>4. Typed'
  BY <1>1, <1>2 DEF InstallInv, Typed, local, AtUi
<1> QED
  BY <1>1, <1>2, <1>3, <1>4
     DEF InstallInv, Typed, Parked, Recovery, Installation, Removal, In, Begun, Unswitched,
         Placing, Clean, Settled, Live, local, fate

LEMMA CrashInv == ASSUME InstallInv, Env = {}, Crash PROVE InstallInv'
<1>1. /\ pc["ui"] \notin Removing /\ UNCHANGED <<card, faults>>
      /\ pc' = [ui |-> "off", worker |-> "idle"]
      /\ rec' = [p \in Proc |-> NoRec] /\ back' = [p \in Proc |-> "idle"]
      /\ act' = [p \in Proc |-> "Retain"] /\ bak' = [p \in Proc |-> FALSE]
      /\ hr' = [p \in Proc |-> AllOk] /\ offer' = 1
  BY DEF Crash, PowerCut, Uninstalling, Removing
<1>2. pc'["ui"] = "off" /\ pc'["worker"] = "idle"
  BY <1>1
<1>3. Typed'
  BY <1>1, InstallerAssumption
     DEF InstallInv, Typed, card, Proc, AtUi, AtWorker, NoRec, Phase, RecoveryAction, HookResults,
         AllOk, Version, InstallerAssumption
<1>4. CardInv'
  BY <1>1 DEF InstallInv, CardInv, OpenCard, Resting, Parted, Kept, Switched, Switching,
     Committed, Clean, Live, card, Removing
<1> QED
  BY <1>1, <1>2, <1>3, <1>4
     DEF InstallInv, Parked, Recovery, Installation, Removal, In, Begun, Unswitched, Placing,
         Recovering, Removing, Proc

-----------------------------------------------------------------------------

LEMMA InstallBegins == ASSUME \A f \in Fates : f.faults \subseteq Failing, Init PROVE InstallInv
<1>1. Typed
  BY InstallerAssumption
     DEF Init, Typed, Proc, AtUi, AtWorker, NoRec, Phase, RecoveryAction, HookResults, AllOk,
         Record, Directory, Version, InstallerAssumption
<1>2. CardInv
  BY DEF Init, CardInv, Clean, Resting, Live, Old, Dir
<1>3. faults \subseteq Failing
  BY DEF Init, FateInit
<1> QED
  BY <1>1, <1>2, <1>3 DEF Init, InstallInv, Parked, Recovery, Installation, Removal, In, Begun,
     Unswitched, Placing, Recovering, Removing, Proc

LEMMA InstallKept == ASSUME InstallInv, Env = {}, [Next]_vars PROVE InstallInv'
<1>1. CASE \E p \in Proc : Work(p)
  <2>1. PICK p \in Proc : Work(p)
    BY <1>1
  <2>2. CASE Recover(p)
    BY <2>2, RecoverInv
  <2>3. CASE RemoveTrees
    BY <2>3, RemoveTreesInv
  <2>4. CASE Install
    BY <2>4, BeginInv, StageInv, PromoteInv, EndInv DEF Install, StageStep, EndStep
  <2> QED
    BY <2>1, <2>2, <2>3, <2>4 DEF Work
<1>2. CASE OpenAppList \/ (\E v \in Version : StartInstall(v)) \/ InstallReturns \/ Uninstall
  BY <1>2, UiInv
<1>3. CASE Crash
  BY <1>3, CrashInv
<1>4. CASE UNCHANGED vars
  BY <1>4 DEF vars, card, local, fate, InstallInv, Typed, Parked, CardInv, OpenCard, Resting,
     Parted, Kept, Switched, Switching, Committed, Clean, Live, Recovery, Visited, Settled,
     MayClear, Installation, In, Removal
<1> QED
  BY <1>1, <1>2, <1>3, <1>4 DEF Next

LEMMA InstallAlways ==
  ASSUME Env = {}, \A f \in Fates : f.faults \subseteq Failing PROVE Spec => []InstallInv
<1>1. Init => InstallInv
  BY InstallBegins
<1>2. InstallInv /\ [Next]_vars => InstallInv'
  BY InstallKept
<1> QED
  BY <1>1, <1>2, PTL DEF Spec

(* No install, upgrade, uninstall, recovery, failed save or extraction, or  *)
(* power cut takes the last whole copy of an app that the registry lists.   *)
THEOREM CopySafe ==
  ASSUME Env = {}, \A f \in Fates : f.faults \subseteq Failing PROVE Spec => []CopyKept
<1>1. ASSUME InstallInv, registry # 0
      PROVE  \E d \in {"live", "bak", "aside"}, v \in {registry, journal.new} \ {0} :
               tree[d] = Whole(v)
  <2>1. registry \in {registry, journal.new} \ {0} /\ Old(registry) = Whole(registry)
    BY <1>1 DEF Old
  <2>2. pc["ui"] # "removeLive"
    BY <1>1 DEF InstallInv, Removal, Removing
  <2>3. tree["live"] = Whole(registry) \/ tree["bak"] = Whole(registry)
    BY <1>1, <2>1, <2>2 DEF InstallInv, CardInv, OpenCard, Resting, Parted, Kept, Switched,
       Committed, Live
  <2> QED
    BY <2>1, <2>3
<1>2. InstallInv => CopyKept
  BY <1>1 DEF CopyKept
<1> QED
  BY <1>2, InstallAlways, PTL

(* When nothing runs and no transaction is open, the app the registry lists *)
(* is live, with all its files.                                             *)
THEOREM LaunchSafe ==
  ASSUME Env = {}, \A f \in Fates : f.faults \subseteq Failing PROVE Spec => []Launchable
<1>1. InstallInv => Launchable
  BY DEF InstallInv, CardInv, Resting, Live, Old, Launchable, AtRest
<1> QED
  BY <1>1, InstallAlways, PTL

(* The registry gets an entry only for a version that is live, whole, and   *)
(* newer than the one it lists.                                             *)
FirstInstall == \E p \in Proc : pc[p] \in {"commit", "saveRegistry"} /\ ~hadPrior(rec[p])

LEMMA Listing ==
  ASSUME InstallInv, Env = {}, [Next]_vars, registry' \notin {registry, 0}
  PROVE  /\ tree["live"] = Whole(registry') /\ registry' > registry
         /\ registry = 0 => FirstInstall
<1>1. CASE \E p \in Proc : CommitNew(p)
  <2>1. PICK p \in Proc : CommitNew(p)
    BY <1>1
  <2>2. pc[p] = "commit" /\ registry' \in {registry, rec[p].new}
    BY <2>1 DEF CommitNew, SaveRegistry, RegistrySaveFails
  <2>3. Switched(journal) /\ rec[p] = journal /\ journal.prior < journal.new
        /\ journal.prior \in Nat /\ journal.new \in Nat
    BY <2>2, RecordAt DEF InstallInv, Recovery, Recovering
  <2> QED
    BY <2>2, <2>3 DEF Switched, Kept, Live, hadPrior, FirstInstall
<1>2. CASE CommitRegistry
  <2>1. pc["worker"] = "saveRegistry" /\ registry' \in {registry, rec["worker"].new}
    BY <1>2 DEF CommitRegistry, SaveRegistry, RegistrySaveFails
  <2>2. Switched(rec["worker"]) /\ registry = rec["worker"].prior /\ registry < rec["worker"].new
        /\ registry \in Nat /\ rec["worker"].new \in Nat
    BY <2>1, Upgrade DEF InstallInv, Installation, In, Installing
  <2> QED
    BY <2>1, <2>2 DEF Switched, Kept, Live, hadPrior, Proc, FirstInstall
<1>3. CASE ~CommitRegistry /\ ~\E p \in Proc : CommitNew(p)
  <2> USE DEF card
  <2>1. ASSUME NEW p \in Proc, Recover(p) PROVE registry' = registry
    <3>1. ASSUME RestoreOld(p) PROVE registry' = registry
      BY <3>1 DEF RestoreOld, ProveBak, Remove, MoveAside, BringBack, Rename, CopyTree, LiveCleared,
         CheckPlaced, RestoreFailed
    <3> QED
      BY <1>3, <2>1, <3>1 DEF Recover, LoadRecord, DropDir, Settle
  <2>2. ASSUME Install PROVE registry' = registry
    <3>1. ASSUME PromoteStaging PROVE registry' = registry
      BY <3>1 DEF PromoteStaging, Remove, CheckLive, Rename, CopyTree, VerifyBak, UndoPromote
    <3> QED
      BY <1>3, <2>2, <3>1 DEF Install, BeginInstall, Remove, SetPhase, CopyTree, DropRecord
  <2>3. ASSUME RemoveTrees PROVE registry' = registry
    BY <2>3 DEF RemoveTrees, Remove
  <2>4. ASSUME OpenAppList \/ (\E v \in Version : StartInstall(v)) \/ InstallReturns \/ Uninstall
        \/ Crash
               \/ UNCHANGED vars
        PROVE  registry' \in {registry, 0}
    BY <2>4 DEF OpenAppList, StartInstall, InstallReturns, Uninstall, SaveRegistry,
       RegistrySaveFails, Crash, vars
  <2> QED
    BY <2>1, <2>2, <2>3, <2>4 DEF Next, Work
<1> QED
  BY <1>1, <1>2, <1>3

(* The registry comes to list a version only when that version is live,     *)
(* with all its files.                                                      *)
THEOREM ListingSafe ==
  ASSUME Env = {}, \A f \in Fates : f.faults \subseteq Failing PROVE Spec => EntryMatchesLive
<1>1. InstallInv
      /\ [Next]_vars => [registry' \notin {registry, 0} => tree["live"] = Whole(registry')]_vars
  BY Listing
<1> QED
  BY <1>1, InstallAlways, PTL DEF Spec, EntryMatchesLive

(* The registry goes back to no older version, and an uninstalled app comes *)
(* back only with a first install.                                          *)
THEOREM RegistrySafe ==
  ASSUME Env = {}, \A f \in Fates : f.faults \subseteq Failing PROVE Spec => NoResurrection
<1>1. InstallInv /\ [Next]_vars =>
        [\/ registry' \in {registry, 0}
         \/ /\ registry' > registry
            /\ registry = 0 => \E p \in Proc : /\ pc[p] \in {"commit", "saveRegistry"}
                                               /\ ~hadPrior(rec[p])]_vars
  <2>1. ASSUME InstallInv, [Next]_vars, registry' \notin {registry, 0}
        PROVE  /\ registry' > registry
               /\ registry = 0 => \E p \in Proc : /\ pc[p] \in {"commit", "saveRegistry"}
                                                  /\ ~hadPrior(rec[p])
    BY <2>1, Listing DEF FirstInstall
  <2> QED
    BY <2>1
<1> QED
  BY <1>1, InstallAlways, PTL DEF Spec, NoResurrection
=============================================================================
