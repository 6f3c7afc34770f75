-------------------------- MODULE MCVaultTimelocks --------------------------
(* Values of the constants of VaultTimelocks for TLC: the risk limits, with *)
(* one limit that can widen while the other tightens.                       *)
EXTENDS VaultTimelocks

MCLimits == [risk |-> {"slippage", "band"}]
MCValues == [risk |-> [{"slippage", "band"} -> 0 .. 1]]
=============================================================================
