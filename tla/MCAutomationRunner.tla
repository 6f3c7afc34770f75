-------------------------- MODULE MCAutomationRunner --------------------------
(* Instances of AutomationRunner for TLC: the configs an admin may write.   *)
EXTENDS AutomationRunner

Off == [enabled |-> FALSE, period |-> "deposit"]
OnDeposit == [enabled |-> TRUE, period |-> "deposit"]
OnHalfDay == [enabled |-> TRUE, period |-> "12h"]

MCConfigs == {Off, OnDeposit, OnHalfDay}
=============================================================================
