---------------------------- MODULE MCSotRegistry ----------------------------
(* Instances of SotRegistry for model checking. *)
EXTENDS SotRegistry, TLC

Symmetry == Permutations(Keys)

CONSTANT MaxAbuse  \* how many of the abuses below a behaviour is followed through

Abuse ==
  Cardinality({m \in {"old", "torn", "crossed", "unkept", "cleared", "ghost"} : marks[m] # {}})
    + Cardinality({h \in Holders : copy[h] # NoCopy /\ copy[h].touched})

FewAbuses == Abuse <= MaxAbuse

================================================================================
