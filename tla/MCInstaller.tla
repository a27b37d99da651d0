----------------------------- MODULE MCInstaller -----------------------------
EXTENDS M4xInstaller

Card(calls, n) == [faults |-> calls, cuts |-> n]

(* No failing call, and each kind of them, with the power cuts it is        *)
(* considered with.                                                         *)
FailingCards == {Card({}, 2),
                 Card({"journal", "registry", "extract"}, 2),
                 Card({"rename", "copy", "extract"}, 0), Card({"remove"}, 1)}
Sound == {Card({}, 0)}

(* The recovery policy answers every record and snapshot with one of its    *)
(* actions, and never clears a record it retains.                           *)
ASSUME PolicyTotal ==
  \A r \in Record, fs \in Snapshot :
    LET action == decideRecovery(r, fs)
    IN /\ action \in RecoveryAction
       /\ \A h \in HookResults : /\ mayClearJournalRecord(action, fs.bak, h) \in BOOLEAN
                                 /\ mayClearJournalRecord(action, fs.bak, h) => action # "Retain"
=============================================================================
