----------------------------- MODULE MCRecordSync -----------------------------
(* Instances of RecordSync for model checking. *)
EXTENDS RecordSync, TLC

CONSTANTS d1, d2, v1, c1, c2

AllByFirst == [v \in Vaults |-> d1]
OnePerVault == [v \in Vaults |-> IF v = v1 THEN d1 ELSE d2]
MixedModes == [d \in Devices |-> IF d = d1 THEN "auto" ELSE "manual"]

\* d2 makes no calls, its vault syncs excepted.  States after a mark, of which
\* RecordsStayInVault says nothing, are followed only to see what a call does that
\* finds no file open.
OneOverlaps ==
  /\ \A s \in Slots : call[d2][s] = NoCall
  /\ (switched = {} /\ misled = {}) \/ open[d1] = None

\* The edits are alike: the second is not made before the first.  Unlike a symmetry
\* this is sound for liveness, because it cuts off whole behaviours, each of which
\* is one that is kept with the edits exchanged, and no fairness is about edits.
InOrder == made[c2] # NoChange => made[c1] # NoChange

Symmetry == Permutations(Slots)

================================================================================
