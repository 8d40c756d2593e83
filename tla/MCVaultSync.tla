------------------------------ MODULE MCVaultSync ------------------------------
(* Instances of VaultSync for model checking. *)
EXTENDS VaultSync, TLC

CONSTANTS d1, d2, s1

MixedModes == (d1 :> "auto") @@ (d2 :> "manual")
AllAuto == (d1 :> "auto") @@ (d2 :> "auto")

\* Only d1 overlaps its calls; d2 is there to change the daemon's log, so only
\* the calls it makes to edit are followed.
SerialPeer ==
  /\ \A s \in Slots \ {s1} : call[d2][s] = NoCall
  /\ call[d2][s1].pc # "idle" => call[d2][s1].edit # None

Symmetry == Permutations(Ids) \cup Permutations(Vaults)

================================================================================
