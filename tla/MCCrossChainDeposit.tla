------------------------ MODULE MCCrossChainDeposit ------------------------
(* A small instance of CrossChainDeposit for TLC.                          *)
EXTENDS CrossChainDeposit, TLC

(* Nothing tells the accounts apart.                                       *)
AccountSymmetry == Permutations(Accounts)
=============================================================================
