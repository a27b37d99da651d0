-------------------------------- MODULE Fate --------------------------------
(* What the SD card and the power do to a run: the calls that may report    *)
(* failure without a crash, and how many power cuts are still to come.      *)
EXTENDS Naturals

CONSTANT Fates   \* those a model considers, as [faults, cuts] records

ASSUME FateAssumption == \A f \in Fates : f.cuts \in Nat

VARIABLES faults, cuts

fate == <<faults, cuts>>

FateOK == \E f \in Fates : faults = f.faults /\ cuts \in 0..f.cuts

FateInit == \E f \in Fates : faults = f.faults /\ cuts = f.cuts

MayFail(call) == call \in faults

PowerCut == cuts > 0 /\ cuts' = cuts - 1 /\ UNCHANGED faults
=============================================================================
