---------------------------- MODULE MCFlowEngine ----------------------------
(***************************************************************************)
(* FlowEngine for TLC with the five attempts a step really has.  Every     *)
(* attempt multiplies what the others may meet, so a run of the pipeline   *)
(* gets a bound on its retries over all steps: the graph is cut where one  *)
(* more has begun.  One step may use them all, or several steps share.     *)
(***************************************************************************)
EXTENDS FlowEngine, FiniteSets

CONSTANT RetryBound     \* bound: attempts beyond the first, over all steps

Retries == {<<i, a>> \in Steps \X Attempts : 1 < a /\ a <= steps[i].attempts}

FewRetries == Cardinality(Retries) <= RetryBound
=============================================================================
