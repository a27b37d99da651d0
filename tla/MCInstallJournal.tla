-------------------------- MODULE MCInstallJournal --------------------------
EXTENDS InstallJournal

CONSTANTS p1, p2

MCIds == {p1, p2}
MCBodies == {S : S \in SUBSET MCIds}

Card(calls, n) == [faults |-> calls, cuts |-> n]

(* A sound and a full card that lose their power, and cards on which each   *)
(* kind of call fails.                                                      *)
Cards == {Card({}, 3), Card({"open", "write"}, 3), Card({"rename", "remove"}, 1),
          Card({"read", "open", "write"}, 0), Card({"rename", "open", "write"}, 0)}
RefusedRenames == {Card({"rename"}, 2)}
=============================================================================
