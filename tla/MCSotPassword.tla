---------------------------- MODULE MCSotPassword ----------------------------
(* An instance of SotPassword for model checking. *)
EXTENDS SotPassword, TLC

Symmetry == Permutations(Passwords)

================================================================================
