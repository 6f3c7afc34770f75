-------------------------- MODULE MCDeltaMonVault --------------------------
(* Instances of DeltaMonVault for TLC: sets of inputs that a cfg cannot     *)
(* write, and the symmetry of the holders.                                  *)
EXTENDS DeltaMonVault, TLC

MCPnls == {-2, 1}
HolderSymmetry == Permutations(Holders)
ManagerSymmetry == Permutations(Managers)
AllSymmetry == HolderSymmetry \cup ManagerSymmetry
=============================================================================
